---- MODULE Spec2Model ----
\* Authorization and data-access layer of the Mercatur CRM: the server actions
\* (customers, contacts, deals, communication logs) over a store whose tables
\* carry the row-level policies of migrations 001 and 002.
EXTENDS Naturals, Integers, Sequences, FiniteSets, TLC

\* ---------------------------------------------------------------- bounds
NumUsers == 2
MaxCustomers == 1
MaxContacts == 2
MaxDeals == 1
MaxComms == 1
NumWriters == 2

\* ---------------------------------------------------------------- values
\* SQL NULL / a missing session user.
NULL == 0
Users == 1..NumUsers
Callers == Users \cup {NULL}
CompanyNames == {"Acme", "Acme AS"}

VARIABLES customers, contacts, deals, comms, nextId, last, scn, txn, gen,
          profiles, authUsers, revalidated

vars == <<customers, contacts, deals, comms, nextId, last, scn, txn, gen,
          profiles, authUsers, revalidated>>

\* SQL equality: NULL = x is never true.
SqlEq(a, b) == a # NULL /\ b # NULL /\ a = b

\* A comparison of the whole message instead of a search in it.
Includes_Exact(s, t) == s = t
\* String.prototype.includes
Includes(s, t) == \E i \in 1..(Len(s) + 1 - Len(t)) : SubSeq(s, i, i + Len(t) - 1) = t

\* ---------------------------------------------------------------- errors
\* A thrown or returned error value: a ZodError, an object carrying a code (the
\* store's errors), an Error, or any other thrown value.
ZodError == [kind |-> "ZodError", hasCode |-> FALSE, code |-> "", message |-> "Navn er pakrevd"]
PostgrestErrorWith(c, m) == [kind |-> "object", hasCode |-> TRUE, code |-> c, message |-> m]
PostgrestError(c) == PostgrestErrorWith(c, "storage")
JsError(m) == [kind |-> "Error", hasCode |-> FALSE, code |-> "", message |-> m]

\* .single() on an empty result
NoRowsError == PostgrestError("PGRST116")
\* a row refused by a WITH CHECK policy
RlsViolation == PostgrestError("42501")

\* The value of a property that is set to undefined.
undefined == "undefined"

\* An error result that always carries the raw detail.
ErrorResponse_Leaky(error, code, details, NODE_ENV) ==
  [error |-> error, code |-> code, details |-> details]
\* The messages are the source's, written without diacritics.
ErrorResponse(error, code, details, NODE_ENV) ==
  [error |-> error, code |-> code,
   details |-> IF NODE_ENV = "development" THEN details ELSE undefined]

\* sanitizeError under process.env.NODE_ENV = NODE_ENV
sanitizeErrorIn(NODE_ENV, error) ==
  IF error.kind = "ZodError"
    THEN ErrorResponse(error.message, "VALIDATION_ERROR", "issues", NODE_ENV)
  ELSE IF error.hasCode THEN
    CASE error.code = "23505" ->
           ErrorResponse("En post med denne informasjonen finnes allerede",
                         "DUPLICATE_RECORD", error.message, NODE_ENV)
      [] error.code = "23503" ->
           ErrorResponse("Kan ikke utfore operasjonen - relaterte data finnes",
                         "CONFLICT", error.message, NODE_ENV)
      [] error.code = "23502" ->
           ErrorResponse("Pakrevd informasjon mangler", "INVALID_INPUT", error.message, NODE_ENV)
      [] error.code = "23514" ->
           ErrorResponse("Ugyldig data - sjekk dine inntastinger",
                         "INVALID_INPUT", error.message, NODE_ENV)
      [] OTHER ->
           ErrorResponse("En databasefeil oppstod. Vennligst prov igjen.",
                         "DATABASE_ERROR", error.message, NODE_ENV)
  ELSE IF error.kind # "other"
          /\ (Includes(error.message, "JWT") \/ Includes(error.message, "auth"))
    THEN ErrorResponse("Du er ikke autorisert til a utfore denne handlingen",
                       "UNAUTHORIZED", error.message, NODE_ENV)
  ELSE IF error.kind # "other"
          /\ (Includes(error.message, "policy") \/ Includes(error.message, "row-level security"))
    THEN ErrorResponse("Du har ikke tilgang til denne ressursen",
                       "FORBIDDEN", error.message, NODE_ENV)
  ELSE IF error.kind # "other"
          /\ (Includes(error.message, "not found") \/ Includes(error.message, "no rows"))
    THEN ErrorResponse("Ressursen ble ikke funnet", "NOT_FOUND", error.message, NODE_ENV)
  ELSE IF error.kind = "Error"
    THEN ErrorResponse("En uventet feil oppstod. Vennligst prov igjen.",
                       "INTERNAL_ERROR", error.message, NODE_ENV)
  ELSE ErrorResponse("En ukjent feil oppstod. Vennligst prov igjen.",
                     "UNKNOWN_ERROR", error.message, NODE_ENV)

\* The server actions run outside development mode.
sanitizeError(error) == sanitizeErrorIn("production", error)

\* The helper returning a result tagged success: false.
unauthorizedError_Tagged ==
  [success |-> FALSE, error |-> "Du ma vaere logget inn for a utfore denne handlingen",
   code |-> "UNAUTHORIZED"]
unauthorizedError ==
  [error |-> "Du ma vaere logget inn for a utfore denne handlingen", code |-> "UNAUTHORIZED"]
forbiddenError == [error |-> "Du har ikke tilgang til denne ressursen", code |-> "FORBIDDEN"]
notFoundError == [error |-> "Ressursen ble ikke funnet", code |-> "NOT_FOUND"]

Success(id) == [success |-> TRUE, data |-> id]
IsSuccess(r) == "success" \in DOMAIN r
CodeOf(r) == IF IsSuccess(r) THEN "" ELSE r.code

ErrorCode ==
  {"VALIDATION_ERROR", "INVALID_INPUT", "UNAUTHORIZED", "FORBIDDEN", "NOT_FOUND",
   "DUPLICATE_RECORD", "CONFLICT", "DATABASE_ERROR", "QUERY_FAILED", "INTERNAL_ERROR",
   "UNKNOWN_ERROR"}

\* The groups of the ErrorCode enum: validation, authorization, resource,
\* database and server errors.
KindOf(code) ==
  CASE code \in {"VALIDATION_ERROR", "INVALID_INPUT"} -> "ValidationError"
    [] code = "UNAUTHORIZED" -> "Unauthorized"
    [] code = "FORBIDDEN" -> "Forbidden"
    [] code = "NOT_FOUND" -> "NotFound"
    [] code \in {"DUPLICATE_RECORD", "CONFLICT"} -> "Conflict"
    [] code \in {"DATABASE_ERROR", "QUERY_FAILED"} -> "DatabaseError"
    [] OTHER -> "ServerError"

\* ---------------------------------------------------------------- row policies
\* gen = 1: the policies of migration 001 are in force; gen = 2: those of
\* migration 002. auth.role() = 'authenticated' is u # NULL.
Authenticated(u) == u # NULL

CustomerSelectPolicy(u, row) == Authenticated(u)
CustomerInsertCheck(u, row) ==
  IF gen = 1 THEN Authenticated(u)
  ELSE Authenticated(u) /\ SqlEq(u, row.created_by)
CustomerUpdateUsing(u, row) ==
  IF gen = 1 THEN Authenticated(u)
  ELSE SqlEq(u, row.created_by) \/ SqlEq(u, row.assigned_to)
CustomerUpdateCheck(u, row) ==
  IF gen = 1 THEN Authenticated(u)
  ELSE SqlEq(u, row.created_by) \/ SqlEq(u, row.assigned_to)
CustomerDeleteUsing(u, row) ==
  IF gen = 1 THEN Authenticated(u)
  ELSE SqlEq(u, row.created_by) \/ SqlEq(u, row.assigned_to)

\* EXISTS (SELECT 1 FROM customers WHERE customers.id = cid AND (created_by =
\* auth.uid() OR assigned_to = auth.uid() OR assigned_to IS NULL)); the subquery
\* runs under the caller's SELECT policy on customers.
ParentAccessible(u, cid) ==
  /\ cid \in DOMAIN customers
  /\ CustomerSelectPolicy(u, customers[cid])
  /\ \/ SqlEq(customers[cid].created_by, u)
     \/ SqlEq(customers[cid].assigned_to, u)
     \/ customers[cid].assigned_to = NULL

\* The same subquery without the assigned_to IS NULL branch.
ParentOwnedOrAssigned(u, cid) ==
  /\ cid \in DOMAIN customers
  /\ CustomerSelectPolicy(u, customers[cid])
  /\ \/ SqlEq(customers[cid].created_by, u)
     \/ SqlEq(customers[cid].assigned_to, u)

ContactSelectPolicy(u, row) ==
  IF gen = 1 THEN Authenticated(u) ELSE ParentAccessible(u, row.customer_id)
ContactInsertCheck(u, row) ==
  IF gen = 1 THEN Authenticated(u)
  ELSE Authenticated(u) /\ SqlEq(u, row.created_by) /\ ParentAccessible(u, row.customer_id)
ContactUpdateUsing(u, row) ==
  IF gen = 1 THEN Authenticated(u) ELSE ParentOwnedOrAssigned(u, row.customer_id)
ContactUpdateCheck(u, row) ==
  IF gen = 1 THEN Authenticated(u) ELSE ParentOwnedOrAssigned(u, row.customer_id)
\* The DELETE policy written with the predicate of the SELECT policy.
ContactDeleteUsing_Wide(u, row) ==
  IF gen = 1 THEN Authenticated(u) ELSE ParentAccessible(u, row.customer_id)
ContactDeleteUsing(u, row) ==
  IF gen = 1 THEN Authenticated(u) ELSE ParentOwnedOrAssigned(u, row.customer_id)

\* The fields an update leaves out keep their stored value.
Merge(row, updateData) ==
  [f \in DOMAIN row |-> IF f \in DOMAIN updateData THEN updateData[f] ELSE row[f]]

\* ---------------------------------------------------------------- customers: inputs
CreateCustomerInputs ==
  [company_name : CompanyNames \cup {""}] \cup
  [company_name : CompanyNames \cup {""}, assigned_to : Users \cup {NULL}]

\* An update schema that lets created_by through to the UPDATE.
UpdateCustomerInputs_WithCreator == [id : 1..MaxCustomers, created_by : Users]
UpdateCustomerInputs ==
  [id : 1..MaxCustomers, company_name : CompanyNames \cup {""}] \cup
  [id : 1..MaxCustomers, assigned_to : Users \cup {NULL}] \cup
  [id : 1..MaxCustomers, company_name : CompanyNames \cup {""}, assigned_to : Users \cup {NULL}]

createCustomerSchemaOk(input) == Len(input.company_name) >= 1
updateCustomerSchemaOk(input) ==
  "company_name" \in DOMAIN input => Len(input.company_name) >= 1

\* The deletes a customer delete cascades to, and the references it nulls.
ContactsOf(cid) == {k \in DOMAIN contacts : contacts[k].customer_id = cid}

Restrict(f, S) == [x \in S |-> f[x]]

\* DELETE FROM customers WHERE id = cid, with its ON DELETE CASCADE children.
CascadeDeleteCustomer(cid) ==
  /\ customers' = Restrict(customers, DOMAIN customers \ {cid})
  /\ contacts' = Restrict(contacts, DOMAIN contacts \ ContactsOf(cid))
  /\ deals' = Restrict(deals, {d \in DOMAIN deals : deals[d].customer_id # cid})
  /\ comms' = [c \in {x \in DOMAIN comms : comms[x].customer_id # cid} |->
                 IF comms[c].contact_id \in ContactsOf(cid)
                 THEN [comms[c] EXCEPT !.contact_id = NULL] ELSE comms[c]]

\* The result of a call; io tells whether the call issued a statement against
\* the store (a read or a write) before it returned.
Result(op, u, id, res) ==
  last' = [op |-> op, user |-> u, id |-> id, res |-> res, io |-> TRUE]
\* The same, recording the operation's argument as well.
ResultOf(op, u, id, arg, res) ==
  last' = [op |-> op, user |-> u, id |-> id, arg |-> arg, res |-> res, io |-> TRUE]
\* The result of a call that returned before its first storage statement.
EarlyResult(op, u, id, res) ==
  last' = [op |-> op, user |-> u, id |-> id, res |-> res, io |-> FALSE]
EarlyResultOf(op, u, id, arg, res) ==
  last' = [op |-> op, user |-> u, id |-> id, arg |-> arg, res |-> res, io |-> FALSE]

\* The ownership check with the assignee forgotten.
isOwnerOrAssigned_OwnerOnly(u, existingCustomer) ==
  existingCustomer.created_by = u
isOwnerOrAssigned(u, existingCustomer) ==
  existingCustomer.created_by = u \/ existingCustomer.assigned_to = u

\* ---------------------------------------------------------------- cached pages
\* The paths a server action hands to revalidatePath; revalidated holds the
\* paths the last call invalidated.
CustomersPath == <<"/customers", 0, 0>>
CustomerPath(cid) == <<"/customers/[id]", cid, 0>>
ContactsPath(cid) == <<"/customers/[id]/contacts", cid, 0>>
ContactPath(cid, k) == <<"/customers/[id]/contacts/[contactId]", cid, k>>
DashboardPath == <<"/dashboard", 0, 0>>
ContactPaths(cid, k) == {CustomerPath(cid), ContactsPath(cid), ContactPath(cid, k)}
\* The invalidation of an update that forgets the row's old customer.
MovedPaths_NewOnly(new, old) == {CustomerPath(new), DashboardPath}
\* updateDeal and updateCommunication: the new customer's page, the old one's, the dashboard.
MovedPaths(new, old) == {CustomerPath(new), CustomerPath(old), DashboardPath}

\* ---------------------------------------------------------------- history of the last operations
\* scn follows the last operations: stage k means that the last k operations
\* were the first k calls of the scenario, by users a and b on customer cust.
ScnIdle == [stage |-> 0, cust |-> 0, a |-> NULL, b |-> NULL]

\* An update of ordinary fields: valid, on the scenario's customer, assignment untouched.
OrdinaryUpdate(input) ==
  /\ input.id = scn.cust
  /\ "assigned_to" \notin DOMAIN input
  /\ updateCustomerSchemaOk(input)

ScnAfterCreate(u, input) ==
  IF /\ u # NULL
     /\ createCustomerSchemaOk(input)
     /\ ("assigned_to" \in DOMAIN input => input.assigned_to = NULL)
  THEN [stage |-> 1, cust |-> nextId.customers, a |-> u, b |-> NULL]
  ELSE ScnIdle

ScnAfterGet(u, id) ==
  IF scn.stage = 1 /\ u # NULL /\ u # scn.a /\ id = scn.cust
  THEN [scn EXCEPT !.stage = 2, !.b = u]
  ELSE ScnIdle

ScnAfterUpdate(u, input) ==
  IF scn.stage = 2 /\ u = scn.b /\ OrdinaryUpdate(input)
    THEN [scn EXCEPT !.stage = 3]
  ELSE IF scn.stage = 3 /\ u = scn.a /\ input = [id |-> scn.cust, assigned_to |-> scn.b]
    THEN [scn EXCEPT !.stage = 4]
  ELSE IF scn.stage = 4 /\ u = scn.b /\ OrdinaryUpdate(input)
    THEN [scn EXCEPT !.stage = 5]
  ELSE ScnIdle

\* ---------------------------------------------------------------- customers: server actions
createCustomer(u, input) ==
  LET id == nextId.customers
      row == [company_name |-> input.company_name,
              assigned_to |-> IF "assigned_to" \in DOMAIN input THEN input.assigned_to ELSE NULL,
              created_by |-> u]
  IN
  /\ id <= MaxCustomers
  /\ IF u = NULL THEN
       /\ EarlyResult("createCustomer", u, 0, unauthorizedError)
       /\ UNCHANGED <<customers, nextId>>
     ELSE IF ~createCustomerSchemaOk(input) THEN
       /\ EarlyResult("createCustomer", u, 0, sanitizeError(ZodError))
       /\ UNCHANGED <<customers, nextId>>
     ELSE IF ~(CustomerInsertCheck(u, row) /\ CustomerSelectPolicy(u, row)) THEN
       /\ Result("createCustomer", u, 0, sanitizeError(RlsViolation))
       /\ UNCHANGED <<customers, nextId>>
     ELSE
       /\ customers' = [i \in DOMAIN customers \cup {id} |->
                          IF i = id THEN row ELSE customers[i]]
       /\ nextId' = [nextId EXCEPT !.customers = id + 1]
       /\ Result("createCustomer", u, id, Success(id))
  /\ scn' = ScnAfterCreate(u, input)
  /\ UNCHANGED <<contacts, deals, comms, txn, gen, profiles, authUsers>>
  /\ revalidated' = IF IsSuccess(last'.res)
                     THEN {CustomersPath}
                     ELSE {}

updateCustomer(u, input) ==
  LET id == input.id
      updateData == Restrict(input, DOMAIN input \ {"id"})
  IN
  /\ IF u = NULL THEN
       /\ EarlyResult("updateCustomer", u, id, unauthorizedError)
       /\ UNCHANGED customers
     ELSE IF ~updateCustomerSchemaOk(input) THEN
       /\ EarlyResult("updateCustomer", u, id, sanitizeError(ZodError))
       /\ UNCHANGED customers
     ELSE IF ~(id \in DOMAIN customers /\ CustomerSelectPolicy(u, customers[id])) THEN
       /\ Result("updateCustomer", u, id, sanitizeError(NoRowsError))
       /\ UNCHANGED customers
     ELSE IF ~isOwnerOrAssigned(u, customers[id]) THEN
       /\ Result("updateCustomer", u, id, forbiddenError)
       /\ UNCHANGED customers
     ELSE IF ~CustomerUpdateUsing(u, customers[id]) THEN
       \* the row is filtered out of the UPDATE: nothing written, no error
       /\ Result("updateCustomer", u, id, Success(id))
       /\ UNCHANGED customers
     ELSE IF ~CustomerUpdateCheck(u, Merge(customers[id], updateData)) THEN
       /\ Result("updateCustomer", u, id, sanitizeError(RlsViolation))
       /\ UNCHANGED customers
     ELSE
       /\ customers' = [customers EXCEPT ![id] = Merge(@, updateData)]
       /\ Result("updateCustomer", u, id, Success(id))
  /\ scn' = ScnAfterUpdate(u, input)
  /\ UNCHANGED <<contacts, deals, comms, nextId, txn, gen, profiles, authUsers>>
  /\ revalidated' = IF IsSuccess(last'.res)
                     THEN {CustomersPath, CustomerPath(input.id)}
                     ELSE {}

deleteCustomer(u, id) ==
  /\ scn' = ScnIdle
  /\ IF u = NULL THEN
       /\ EarlyResult("deleteCustomer", u, id, unauthorizedError)
       /\ UNCHANGED <<customers, contacts, deals, comms, nextId, txn, gen, profiles, authUsers>>
     ELSE IF ~(id \in DOMAIN customers /\ CustomerSelectPolicy(u, customers[id])) THEN
       /\ Result("deleteCustomer", u, id, sanitizeError(NoRowsError))
       /\ UNCHANGED <<customers, contacts, deals, comms, nextId, txn, gen, profiles, authUsers>>
     ELSE IF ~isOwnerOrAssigned(u, customers[id]) THEN
       /\ Result("deleteCustomer", u, id, forbiddenError)
       /\ UNCHANGED <<customers, contacts, deals, comms, nextId, txn, gen, profiles, authUsers>>
     ELSE IF ~CustomerDeleteUsing(u, customers[id]) THEN
       /\ Result("deleteCustomer", u, id, Success(id))
       /\ UNCHANGED <<customers, contacts, deals, comms, nextId, txn, gen, profiles, authUsers>>
     ELSE
       /\ CascadeDeleteCustomer(id)
       /\ Result("deleteCustomer", u, id, Success(id))
       /\ UNCHANGED <<nextId, txn, gen, profiles, authUsers>>
  /\ revalidated' = IF IsSuccess(last'.res)
                     THEN {CustomersPath}
                     ELSE {}

\* The delete button of the customer page deletes straight against the store.
DeleteCustomerButton(u, id) ==
  /\ scn' = ScnIdle
  /\ IF id \in DOMAIN customers /\ CustomerDeleteUsing(u, customers[id]) THEN
       /\ CascadeDeleteCustomer(id)
       /\ Result("DeleteCustomerButton", u, id, Success(id))
       /\ UNCHANGED <<nextId, txn, gen, profiles, authUsers>>
     ELSE
       /\ Result("DeleteCustomerButton", u, id, Success(id))
       /\ UNCHANGED <<customers, contacts, deals, comms, nextId, txn, gen, profiles, authUsers>>
  /\ revalidated' = {}

\* Reads the customers_with_stats view, which is not subject to the row policies.
getCustomer(u, id) ==
  /\ IF u = NULL THEN EarlyResult("getCustomer", u, id, unauthorizedError)
     ELSE IF id \notin DOMAIN customers THEN Result("getCustomer", u, id, sanitizeError(NoRowsError))
     ELSE Result("getCustomer", u, id, Success(id))
  /\ scn' = ScnAfterGet(u, id)
  /\ UNCHANGED <<customers, contacts, deals, comms, nextId, txn, gen, profiles, authUsers>>
  /\ revalidated' = {}

\* ---------------------------------------------------------------- contacts
ContactNames == {"Kari"}

CreateContactInputs ==
  [customer_id : 1..MaxCustomers, full_name : ContactNames \cup {""}, is_primary : BOOLEAN]

UpdateContactInputs ==
  [id : 1..MaxContacts, is_primary : BOOLEAN] \cup
  [id : 1..MaxContacts, full_name : ContactNames \cup {""}]

createContactSchemaOk(input) == Len(input.full_name) >= 1
updateContactSchemaOk(input) ==
  "full_name" \in DOMAIN input => Len(input.full_name) >= 1

\* The trigger ensure_single_primary_contact, BEFORE INSERT OR UPDATE of row id
\* to new, run on table tbl for caller u: its UPDATE clears the other primary
\* contacts of the customer that the caller's SELECT and UPDATE policies let
\* through (the trigger function is not SECURITY DEFINER).
ensure_single_primary_contact(u, tbl, id, new) ==
  [k \in DOMAIN tbl |->
     IF /\ new.is_primary
        /\ tbl[k].customer_id = new.customer_id
        /\ k # id
        /\ tbl[k].is_primary
        /\ ContactSelectPolicy(u, tbl[k])
        /\ ContactUpdateUsing(u, tbl[k])
     THEN [tbl[k] EXCEPT !.is_primary = FALSE]
     ELSE tbl[k]]

createContact(u, input) ==
  LET id == nextId.contacts
      row == [customer_id |-> input.customer_id,
              full_name |-> input.full_name,
              is_primary |-> input.is_primary,
              created_by |-> u]
  IN
  /\ id <= MaxContacts
  /\ IF u = NULL THEN
       /\ EarlyResultOf("createContact", u, 0, input, unauthorizedError)
       /\ UNCHANGED <<contacts, nextId>>
     ELSE IF ~createContactSchemaOk(input) THEN
       /\ EarlyResultOf("createContact", u, 0, input, sanitizeError(ZodError))
       /\ UNCHANGED <<contacts, nextId>>
     ELSE IF ~(ContactInsertCheck(u, row) /\ ContactSelectPolicy(u, row)) THEN
       /\ ResultOf("createContact", u, 0, input, sanitizeError(RlsViolation))
       /\ UNCHANGED <<contacts, nextId>>
     ELSE
       /\ contacts' = [k \in DOMAIN contacts \cup {id} |->
                         IF k = id THEN row
                         ELSE ensure_single_primary_contact(u, contacts, id, row)[k]]
       /\ nextId' = [nextId EXCEPT !.contacts = id + 1]
       /\ ResultOf("createContact", u, id, input, Success(id))
  /\ UNCHANGED <<customers, deals, comms, scn, txn, gen, profiles, authUsers>>
  /\ revalidated' = IF IsSuccess(last'.res)
                     THEN {CustomerPath(input.customer_id), ContactsPath(input.customer_id)}
                     ELSE {}

updateContact(u, input) ==
  LET id == input.id
      updateData == Restrict(input, DOMAIN input \ {"id"})
      new == Merge(contacts[id], updateData)
  IN
  /\ IF u = NULL THEN
       /\ EarlyResultOf("updateContact", u, id, input, unauthorizedError)
       /\ UNCHANGED contacts
     ELSE IF ~updateContactSchemaOk(input) THEN
       /\ EarlyResultOf("updateContact", u, id, input, sanitizeError(ZodError))
       /\ UNCHANGED contacts
     ELSE IF ~(id \in DOMAIN contacts /\ ContactSelectPolicy(u, contacts[id])) THEN
       /\ ResultOf("updateContact", u, id, input, sanitizeError(NoRowsError))
       /\ UNCHANGED contacts
     ELSE IF ~ContactUpdateUsing(u, contacts[id]) THEN
       \* the row is filtered out of the UPDATE: nothing written, no error
       /\ ResultOf("updateContact", u, id, input, Success(id))
       /\ UNCHANGED contacts
     ELSE IF ~ContactUpdateCheck(u, new) THEN
       /\ ResultOf("updateContact", u, id, input, sanitizeError(RlsViolation))
       /\ UNCHANGED contacts
     ELSE
       /\ contacts' = [ensure_single_primary_contact(u, contacts, id, new) EXCEPT ![id] = new]
       /\ ResultOf("updateContact", u, id, input, Success(id))
  /\ UNCHANGED <<customers, deals, comms, nextId, scn, txn, gen, profiles, authUsers>>
  /\ revalidated' = IF IsSuccess(last'.res)
                     THEN ContactPaths(contacts[input.id].customer_id, input.id)
                     ELSE {}

deleteContact(u, id) ==
  /\ IF u = NULL THEN
       /\ EarlyResultOf("deleteContact", u, id, NULL, unauthorizedError)
       /\ UNCHANGED <<contacts, comms>>
     ELSE IF ~(id \in DOMAIN contacts /\ ContactSelectPolicy(u, contacts[id])) THEN
       /\ ResultOf("deleteContact", u, id, NULL, sanitizeError(NoRowsError))
       /\ UNCHANGED <<contacts, comms>>
     ELSE IF ~ContactDeleteUsing(u, contacts[id]) THEN
       \* the row is filtered out of the DELETE: nothing deleted, no error
       /\ ResultOf("deleteContact", u, id, NULL, Success(id))
       /\ UNCHANGED <<contacts, comms>>
     ELSE
       /\ contacts' = Restrict(contacts, DOMAIN contacts \ {id})
       /\ comms' = [c \in DOMAIN comms |->
                      IF comms[c].contact_id = id
                      THEN [comms[c] EXCEPT !.contact_id = NULL] ELSE comms[c]]
       /\ ResultOf("deleteContact", u, id, NULL, Success(id))
  /\ UNCHANGED <<customers, deals, nextId, scn, txn, gen, profiles, authUsers>>
  /\ revalidated' = IF IsSuccess(last'.res)
                     THEN {CustomerPath(contacts[id].customer_id), ContactsPath(contacts[id].customer_id)}
                     ELSE {}

getContact(u, id) ==
  /\ IF u = NULL THEN EarlyResultOf("getContact", u, id, NULL, unauthorizedError)
     ELSE IF ~(id \in DOMAIN contacts /\ ContactSelectPolicy(u, contacts[id]))
       THEN ResultOf("getContact", u, id, NULL, sanitizeError(NoRowsError))
     ELSE ResultOf("getContact", u, id, NULL, Success(id))
  /\ UNCHANGED <<customers, contacts, deals, comms, nextId, scn, txn, gen, profiles, authUsers>>
  /\ revalidated' = {}

\* ---------------------------------------------------------------- contacts: concurrent updates
\* Each writer runs updateContact against the store, whose transactions are
\* READ COMMITTED: a statement reads the rows committed when it starts, an
\* UPDATE waits for a row another transaction has locked and then looks at the
\* row's committed version again, and nothing a transaction wrote is visible
\* to the others before it commits. txn[w] is writer w's position.
Writers == 1..NumWriters
IdleTxn == [pc |-> "idle", user |-> NULL, input |-> << >>, matched |-> {}, cleared |-> {}]
NoTxn == [w \in Writers |-> IdleTxn]

\* The rows writer w holds locked: the row it updates and the rows its trigger cleared.
LockedBy(w) ==
  IF txn[w].pc = "idle" THEN {} ELSE {txn[w].input.id} \cup txn[w].cleared
LockedByOther(w, k) == \E o \in Writers \ {w} : k \in LockedBy(o)

\* updateContact up to the point where its UPDATE statement has locked the row.
updateContactStart(w, u, input) ==
  LET id == input.id IN
  /\ txn[w].pc = "idle"
  /\ IF u = NULL THEN
       /\ EarlyResultOf("updateContact", u, id, input, unauthorizedError)
       /\ UNCHANGED txn
     ELSE IF ~updateContactSchemaOk(input) THEN
       /\ EarlyResultOf("updateContact", u, id, input, sanitizeError(ZodError))
       /\ UNCHANGED txn
     ELSE IF ~(id \in DOMAIN contacts /\ ContactSelectPolicy(u, contacts[id])) THEN
       /\ ResultOf("updateContact", u, id, input, sanitizeError(NoRowsError))
       /\ UNCHANGED txn
     ELSE IF ~ContactUpdateUsing(u, contacts[id]) THEN
       /\ ResultOf("updateContact", u, id, input, Success(id))
       /\ UNCHANGED txn
     ELSE
       /\ ~LockedByOther(w, id)
       /\ txn' = [txn EXCEPT ![w] = [IdleTxn EXCEPT !.pc = "locked", !.user = u, !.input = input]]
       /\ UNCHANGED last
  /\ UNCHANGED <<customers, contacts, deals, comms, nextId, scn, gen, profiles, authUsers>>
  /\ revalidated' = IF txn' # txn THEN revalidated
                     ELSE IF IsSuccess(last'.res)
                       THEN ContactPaths(contacts[input.id].customer_id, input.id)
                     ELSE {}

\* The trigger's UPDATE starts: it matches the other primary contacts of the
\* customer among the rows committed at this moment.
triggerSnapshot(w) ==
  LET id == txn[w].input.id
      new == Merge(contacts[id], Restrict(txn[w].input, DOMAIN txn[w].input \ {"id"}))
  IN
  /\ txn[w].pc = "locked"
  /\ txn' = [txn EXCEPT ![w].pc = "matched",
                        ![w].matched =
                          {k \in DOMAIN contacts :
                             ensure_single_primary_contact(txn[w].user, contacts, id, new)[k]
                               # contacts[k]}]
  /\ UNCHANGED <<customers, contacts, deals, comms, nextId, last, scn, gen, profiles, authUsers>>
  /\ UNCHANGED revalidated

\* The trigger's UPDATE finishes once no matched row is locked by another
\* transaction: it clears the matched rows that are still primary.
triggerClear(w) ==
  /\ txn[w].pc = "matched"
  /\ \A k \in txn[w].matched : ~LockedByOther(w, k)
  /\ txn' = [txn EXCEPT ![w].pc = "cleared",
                        ![w].cleared = {k \in txn[w].matched : contacts[k].is_primary}]
  /\ UNCHANGED <<customers, contacts, deals, comms, nextId, last, scn, gen, profiles, authUsers>>
  /\ UNCHANGED revalidated

\* The row is written, the transaction commits and updateContact returns.
updateContactCommit(w) ==
  LET id == txn[w].input.id
      new == Merge(contacts[id], Restrict(txn[w].input, DOMAIN txn[w].input \ {"id"}))
  IN
  /\ txn[w].pc = "cleared"
  /\ IF ~ContactUpdateCheck(txn[w].user, new) THEN
       /\ ResultOf("updateContact", txn[w].user, id, txn[w].input, sanitizeError(RlsViolation))
       /\ UNCHANGED contacts
     ELSE
       /\ contacts' = [k \in DOMAIN contacts |->
                         IF k = id THEN new
                         ELSE IF k \in txn[w].cleared
                           THEN [contacts[k] EXCEPT !.is_primary = FALSE]
                         ELSE contacts[k]]
       /\ ResultOf("updateContact", txn[w].user, id, txn[w].input, Success(id))
  /\ txn' = [txn EXCEPT ![w] = IdleTxn]
  /\ UNCHANGED <<customers, deals, comms, nextId, scn, gen, profiles, authUsers>>
  /\ revalidated' = IF IsSuccess(last'.res)
                     THEN ContactPaths(contacts[txn[w].input.id].customer_id, txn[w].input.id)
                     ELSE {}

\* Two transactions that wait for each other's rows: the store aborts one.
DeadlockDetected == PostgrestError("40P01")
deadlockAbort(w) ==
  /\ txn[w].pc = "matched"
  /\ \E o \in Writers \ {w} :
       /\ txn[o].pc = "matched"
       /\ \E k \in txn[w].matched : k \in LockedBy(o)
       /\ \E k \in txn[o].matched : k \in LockedBy(w)
  /\ ResultOf("updateContact", txn[w].user, txn[w].input.id, txn[w].input,
              sanitizeError(DeadlockDetected))
  /\ txn' = [txn EXCEPT ![w] = IdleTxn]
  /\ UNCHANGED <<customers, contacts, deals, comms, nextId, scn, gen, profiles, authUsers>>
  /\ revalidated' = {}

\* ---------------------------------------------------------------- deals
DealSelectPolicy(u, row) ==
  IF gen = 1 THEN Authenticated(u)
  ELSE \/ SqlEq(u, row.created_by)
       \/ SqlEq(u, row.assigned_to)
       \/ ParentAccessible(u, row.customer_id)
DealInsertCheck(u, row) ==
  IF gen = 1 THEN Authenticated(u)
  ELSE Authenticated(u) /\ SqlEq(u, row.created_by) /\ ParentAccessible(u, row.customer_id)
DealUpdateUsing(u, row) ==
  IF gen = 1 THEN Authenticated(u)
  ELSE SqlEq(u, row.created_by) \/ SqlEq(u, row.assigned_to)
DealUpdateCheck(u, row) ==
  IF gen = 1 THEN Authenticated(u)
  ELSE SqlEq(u, row.created_by) \/ SqlEq(u, row.assigned_to)
DealDeleteUsing(u, row) ==
  IF gen = 1 THEN Authenticated(u)
  ELSE SqlEq(u, row.created_by) \/ SqlEq(u, row.assigned_to)

dealStageEnum == {"lead", "qualified", "proposal", "negotiation", "won", "lost"}
\* The stages the inputs of the deal specifications draw from, except where a
\* specification names dealStageEnum itself.
SampleStages == {"lead", "won", "lost"}
DealNames == {"Deal"}

\* Dates are day numbers; the date strings of the inputs stand for these days.
DateStrings == <<"2024-01-15", "2024-02-01">>
DayOf(s) == CHOOSE d \in 1..Len(DateStrings) : DateStrings[d] = s
\* validatedData.actual_close_date || null
DateOrNull(input) ==
  IF "actual_close_date" \notin DOMAIN input \/ input.actual_close_date = ""
  THEN NULL ELSE DayOf(input.actual_close_date)
CURRENT_DATE == 2

CreateDealInputs ==
  [customer_id : 1..MaxCustomers, deal_name : DealNames \cup {""}, stage : SampleStages] \cup
  [customer_id : 1..MaxCustomers, deal_name : DealNames, stage : SampleStages,
   actual_close_date : {"", DateStrings[1]}]

UpdateDealInputs ==
  [id : 1..MaxDeals, customer_id : 1..MaxCustomers, deal_name : DealNames \cup {""},
   stage : SampleStages] \cup
  [id : 1..MaxDeals, customer_id : 1..MaxCustomers, deal_name : DealNames,
   stage : SampleStages, actual_close_date : {"", DateStrings[1]}]

createDealSchemaOk(input) == Len(input.deal_name) >= 1
updateDealSchemaOk(input) == Len(input.deal_name) >= 1

\* from('customers').select('id').eq('id', cid).eq('assigned_to', u).single()
CustomerAssignedTo(u, cid) ==
  /\ cid \in DOMAIN customers
  /\ CustomerSelectPolicy(u, customers[cid])
  /\ SqlEq(customers[cid].assigned_to, u)

\* from('deals').select(...).eq('id', id).eq('assigned_to', u).single()
DealAssignedTo(u, id) ==
  /\ id \in DOMAIN deals
  /\ DealSelectPolicy(u, deals[id])
  /\ SqlEq(deals[id].assigned_to, u)

\* The update without the trigger: the row is stored as the UPDATE wrote it.
set_deal_close_date_Absent(old, new) == new
\* The trigger set_deal_close_date, BEFORE UPDATE of old to new.
set_deal_close_date(old, new) ==
  IF new.stage \in {"won", "lost"} /\ old.stage \notin {"won", "lost"}
  THEN [new EXCEPT !.actual_close_date = CURRENT_DATE]
  ELSE new

createDeal(u, input) ==
  LET id == nextId.deals
      row == [customer_id |-> input.customer_id,
              deal_name |-> input.deal_name,
              stage |-> input.stage,
              actual_close_date |-> DateOrNull(input),
              assigned_to |-> u,
              created_by |-> NULL]
  IN
  /\ id <= MaxDeals
  /\ IF u = NULL THEN
       /\ EarlyResultOf("createDeal", u, 0, input, sanitizeError(JsError("Unauthorized")))
       /\ UNCHANGED <<deals, nextId>>
     ELSE IF ~createDealSchemaOk(input) THEN
       /\ EarlyResultOf("createDeal", u, 0, input, sanitizeError(ZodError))
       /\ UNCHANGED <<deals, nextId>>
     ELSE IF ~CustomerAssignedTo(u, input.customer_id) THEN
       /\ ResultOf("createDeal", u, 0, input, sanitizeError(JsError("Forbidden")))
       /\ UNCHANGED <<deals, nextId>>
     ELSE IF ~(DealInsertCheck(u, row) /\ DealSelectPolicy(u, row)) THEN
       /\ ResultOf("createDeal", u, 0, input, sanitizeError(RlsViolation))
       /\ UNCHANGED <<deals, nextId>>
     ELSE
       /\ deals' = [d \in DOMAIN deals \cup {id} |-> IF d = id THEN row ELSE deals[d]]
       /\ nextId' = [nextId EXCEPT !.deals = id + 1]
       /\ ResultOf("createDeal", u, id, input, Success(id))
  /\ UNCHANGED <<customers, contacts, comms, scn, txn, gen, profiles, authUsers>>
  /\ revalidated' = IF IsSuccess(last'.res)
                     THEN {CustomerPath(input.customer_id), DashboardPath}
                     ELSE {}

updateDeal(u, input) ==
  LET id == input.id
      new == set_deal_close_date(deals[id],
               [deals[id] EXCEPT !.customer_id = input.customer_id,
                                 !.deal_name = input.deal_name,
                                 !.stage = input.stage,
                                 !.actual_close_date = DateOrNull(input)])
  IN
  /\ IF u = NULL THEN
       /\ EarlyResultOf("updateDeal", u, id, input, sanitizeError(JsError("Unauthorized")))
       /\ UNCHANGED deals
     ELSE IF ~updateDealSchemaOk(input) THEN
       /\ EarlyResultOf("updateDeal", u, id, input, sanitizeError(ZodError))
       /\ UNCHANGED deals
     ELSE IF ~DealAssignedTo(u, id) THEN
       /\ ResultOf("updateDeal", u, id, input, sanitizeError(JsError("Forbidden")))
       /\ UNCHANGED deals
     ELSE IF ~CustomerAssignedTo(u, input.customer_id) THEN
       /\ ResultOf("updateDeal", u, id, input, sanitizeError(JsError("Forbidden")))
       /\ UNCHANGED deals
     ELSE IF ~DealUpdateUsing(u, deals[id]) THEN
       /\ ResultOf("updateDeal", u, id, input, Success(id))
       /\ UNCHANGED deals
     ELSE IF ~DealUpdateCheck(u, new) THEN
       /\ ResultOf("updateDeal", u, id, input, sanitizeError(RlsViolation))
       /\ UNCHANGED deals
     ELSE
       /\ deals' = [deals EXCEPT ![id] = new]
       /\ ResultOf("updateDeal", u, id, input, Success(id))
  /\ UNCHANGED <<customers, contacts, comms, nextId, scn, txn, gen, profiles, authUsers>>
  /\ revalidated' = IF IsSuccess(last'.res)
                     THEN MovedPaths(input.customer_id, deals[input.id].customer_id)
                     ELSE {}

deleteDeal(u, id) ==
  /\ IF u = NULL THEN
       /\ EarlyResultOf("deleteDeal", u, id, NULL, sanitizeError(JsError("Unauthorized")))
       /\ UNCHANGED deals
     ELSE IF ~DealAssignedTo(u, id) THEN
       /\ ResultOf("deleteDeal", u, id, NULL, sanitizeError(JsError("Forbidden")))
       /\ UNCHANGED deals
     ELSE IF ~DealDeleteUsing(u, deals[id]) THEN
       /\ ResultOf("deleteDeal", u, id, NULL, Success(id))
       /\ UNCHANGED deals
     ELSE
       /\ deals' = Restrict(deals, DOMAIN deals \ {id})
       /\ ResultOf("deleteDeal", u, id, NULL, Success(id))
  /\ UNCHANGED <<customers, contacts, comms, nextId, scn, txn, gen, profiles, authUsers>>
  /\ revalidated' = IF IsSuccess(last'.res)
                     THEN {CustomerPath(deals[id].customer_id), DashboardPath}
                     ELSE {}

getDeal(u, id) ==
  /\ IF u = NULL THEN EarlyResultOf("getDeal", u, id, NULL, sanitizeError(JsError("Unauthorized")))
     ELSE IF ~DealAssignedTo(u, id) THEN ResultOf("getDeal", u, id, NULL, sanitizeError(JsError("Not found")))
     ELSE ResultOf("getDeal", u, id, NULL, Success(id))
  /\ UNCHANGED <<customers, contacts, deals, comms, nextId, scn, txn, gen, profiles, authUsers>>
  /\ revalidated' = {}

\* ---------------------------------------------------------------- communication logs
\* The policies of communication_logs are those of migration 001 in both
\* generations: migration 002 leaves them in place.
CommSelectPolicy(u, row) == Authenticated(u)
CommInsertCheck(u, row) == Authenticated(u)
CommUpdateUsing(u, row) == SqlEq(u, row.logged_by)
CommDeleteUsing(u, row) == SqlEq(u, row.logged_by)

\* Instants are numbered; NOW is the instant of the write.
\* The strings are a past instant, a future one and the instant of the write.
DateTimeStrings == <<"2024-01-15T10:00:00Z", "2099-01-01T00:00:00Z", "2024-02-01T12:00:00Z">>
NOW == 2
InstantOf(s) == IF s = DateTimeStrings[1] THEN 1 ELSE IF s = DateTimeStrings[3] THEN NOW ELSE 3
\* The table without the constraint.
check_communication_date_not_future_Absent(row) == TRUE
check_communication_date_not_future(row) == row.communication_date <= NOW
CheckViolation == PostgrestError("23514")

Subjects == {"Call"}

CreateCommunicationInputs ==
  [customer_id : 1..MaxCustomers, subject : Subjects \cup {""},
   communication_date : {DateTimeStrings[1], DateTimeStrings[2]}] \cup
  [customer_id : 1..MaxCustomers, contact_id : (1..MaxContacts) \cup {NULL},
   subject : Subjects, communication_date : {DateTimeStrings[1]}]

UpdateCommunicationInputs ==
  [id : 1..MaxComms, customer_id : 1..MaxCustomers, subject : Subjects \cup {""},
   communication_date : {DateTimeStrings[1], DateTimeStrings[2]}] \cup
  [id : 1..MaxComms, customer_id : 1..MaxCustomers, contact_id : (1..MaxContacts) \cup {NULL},
   subject : Subjects, communication_date : {DateTimeStrings[1]}]

createCommunicationSchemaOk(input) == Len(input.subject) >= 1
updateCommunicationSchemaOk(input) == Len(input.subject) >= 1

\* if (validatedData.contact_id): a contact is named
HasContact(input) == "contact_id" \in DOMAIN input /\ input.contact_id # NULL

\* from('contacts').select('id').eq('id', k).eq('customer_id', cid).single()
ContactOfCustomer(u, k, cid) ==
  /\ k \in DOMAIN contacts
  /\ ContactSelectPolicy(u, contacts[k])
  /\ contacts[k].customer_id = cid

\* from('communication_logs').select(...).eq('id', id).eq('logged_by', u).single()
CommLoggedBy(u, id) ==
  /\ id \in DOMAIN comms
  /\ CommSelectPolicy(u, comms[id])
  /\ SqlEq(comms[id].logged_by, u)

createCommunication(u, input) ==
  LET id == nextId.comms
      row == [customer_id |-> input.customer_id,
              contact_id |-> IF "contact_id" \in DOMAIN input THEN input.contact_id ELSE NULL,
              subject |-> input.subject,
              communication_date |-> InstantOf(input.communication_date),
              logged_by |-> u]
  IN
  /\ id <= MaxComms
  /\ IF u = NULL THEN
       /\ EarlyResultOf("createCommunication", u, 0, input, sanitizeError(JsError("Unauthorized")))
       /\ UNCHANGED <<comms, nextId>>
     ELSE IF ~createCommunicationSchemaOk(input) THEN
       /\ EarlyResultOf("createCommunication", u, 0, input, sanitizeError(ZodError))
       /\ UNCHANGED <<comms, nextId>>
     ELSE IF ~CustomerAssignedTo(u, input.customer_id) THEN
       /\ ResultOf("createCommunication", u, 0, input, sanitizeError(JsError("Forbidden")))
       /\ UNCHANGED <<comms, nextId>>
     ELSE IF HasContact(input) /\ ~ContactOfCustomer(u, input.contact_id, input.customer_id) THEN
       /\ ResultOf("createCommunication", u, 0, input,
                 sanitizeError(JsError("Invalid contact for this customer")))
       /\ UNCHANGED <<comms, nextId>>
     ELSE IF ~check_communication_date_not_future(row) THEN
       /\ ResultOf("createCommunication", u, 0, input, sanitizeError(CheckViolation))
       /\ UNCHANGED <<comms, nextId>>
     ELSE IF ~(CommInsertCheck(u, row) /\ CommSelectPolicy(u, row)) THEN
       /\ ResultOf("createCommunication", u, 0, input, sanitizeError(RlsViolation))
       /\ UNCHANGED <<comms, nextId>>
     ELSE
       /\ comms' = [c \in DOMAIN comms \cup {id} |-> IF c = id THEN row ELSE comms[c]]
       /\ nextId' = [nextId EXCEPT !.comms = id + 1]
       /\ ResultOf("createCommunication", u, id, input, Success(id))
  /\ UNCHANGED <<customers, contacts, deals, scn, txn, gen, profiles, authUsers>>
  /\ revalidated' = IF IsSuccess(last'.res)
                     THEN {CustomerPath(input.customer_id), DashboardPath}
                     ELSE {}

updateCommunication(u, input) ==
  LET id == input.id
      \* a contact_id left undefined is not sent: the column keeps its value
      new == [comms[id] EXCEPT !.customer_id = input.customer_id,
                               !.contact_id = IF "contact_id" \in DOMAIN input
                                              THEN input.contact_id ELSE @,
                               !.subject = input.subject,
                               !.communication_date = InstantOf(input.communication_date)]
  IN
  /\ IF u = NULL THEN
       /\ EarlyResultOf("updateCommunication", u, id, input, sanitizeError(JsError("Unauthorized")))
       /\ UNCHANGED comms
     ELSE IF ~updateCommunicationSchemaOk(input) THEN
       /\ EarlyResultOf("updateCommunication", u, id, input, sanitizeError(ZodError))
       /\ UNCHANGED comms
     ELSE IF ~CommLoggedBy(u, id) THEN
       /\ ResultOf("updateCommunication", u, id, input, sanitizeError(JsError("Forbidden")))
       /\ UNCHANGED comms
     ELSE IF ~CustomerAssignedTo(u, input.customer_id) THEN
       /\ ResultOf("updateCommunication", u, id, input, sanitizeError(JsError("Forbidden")))
       /\ UNCHANGED comms
     ELSE IF HasContact(input) /\ ~ContactOfCustomer(u, input.contact_id, input.customer_id) THEN
       /\ ResultOf("updateCommunication", u, id, input,
                 sanitizeError(JsError("Invalid contact for this customer")))
       /\ UNCHANGED comms
     ELSE IF ~CommUpdateUsing(u, comms[id]) THEN
       /\ ResultOf("updateCommunication", u, id, input, Success(id))
       /\ UNCHANGED comms
     ELSE IF ~check_communication_date_not_future(new) THEN
       /\ ResultOf("updateCommunication", u, id, input, sanitizeError(CheckViolation))
       /\ UNCHANGED comms
     ELSE
       /\ comms' = [comms EXCEPT ![id] = new]
       /\ ResultOf("updateCommunication", u, id, input, Success(id))
  /\ UNCHANGED <<customers, contacts, deals, nextId, scn, txn, gen, profiles, authUsers>>
  /\ revalidated' = IF IsSuccess(last'.res)
                     THEN MovedPaths(input.customer_id, comms[input.id].customer_id)
                     ELSE {}

deleteCommunication(u, id) ==
  /\ IF u = NULL THEN
       /\ EarlyResultOf("deleteCommunication", u, id, NULL, sanitizeError(JsError("Unauthorized")))
       /\ UNCHANGED comms
     ELSE IF ~CommLoggedBy(u, id) THEN
       /\ ResultOf("deleteCommunication", u, id, NULL, sanitizeError(JsError("Forbidden")))
       /\ UNCHANGED comms
     ELSE IF ~CommDeleteUsing(u, comms[id]) THEN
       /\ ResultOf("deleteCommunication", u, id, NULL, Success(id))
       /\ UNCHANGED comms
     ELSE
       /\ comms' = Restrict(comms, DOMAIN comms \ {id})
       /\ ResultOf("deleteCommunication", u, id, NULL, Success(id))
  /\ UNCHANGED <<customers, contacts, deals, nextId, scn, txn, gen, profiles, authUsers>>
  /\ revalidated' = IF IsSuccess(last'.res)
                     THEN {CustomerPath(comms[id].customer_id), DashboardPath}
                     ELSE {}

getCommunication(u, id) ==
  /\ IF u = NULL THEN EarlyResultOf("getCommunication", u, id, NULL, sanitizeError(JsError("Unauthorized")))
     ELSE IF ~CommLoggedBy(u, id)
       THEN ResultOf("getCommunication", u, id, NULL, sanitizeError(JsError("Not found")))
     ELSE ResultOf("getCommunication", u, id, NULL, Success(id))
  /\ UNCHANGED <<customers, contacts, deals, comms, nextId, scn, txn, gen, profiles, authUsers>>
  /\ revalidated' = {}

\* ---------------------------------------------------------------- lists, search and dashboard
\* The search without trimming its term.
trim_Absent(s) == s
\* String.prototype.trim, for the space character.
RECURSIVE trim(_)
trim(s) ==
  IF Len(s) = 0 THEN s
  ELSE IF SubSeq(s, 1, 1) = " " THEN trim(SubSeq(s, 2, Len(s)))
  ELSE IF SubSeq(s, Len(s), Len(s)) = " " THEN trim(SubSeq(s, 1, Len(s) - 1))
  ELSE s

\* Lower case, for the capitals the stored names use.
lower(c) ==
  CASE c = "A" -> "a" [] c = "C" -> "c" [] c = "D" -> "d"
    [] c = "K" -> "k" [] c = "S" -> "s" [] OTHER -> c

\* column ILIKE '%q%'
ilike(value, q) ==
  \E i \in 1..(Len(value) + 1 - Len(q)) :
    \A j \in 1..Len(q) : lower(SubSeq(value, i + j - 1, i + j - 1)) = lower(SubSeq(q, j, j))

SearchQueries == {"", " ", "a", " a ", "ac", "AS", "xy"}

\* All rows fit on the first page.
getCustomers(u) ==
  /\ IF u = NULL THEN EarlyResult("getCustomers", u, 0, unauthorizedError)
     ELSE Result("getCustomers", u, 0, Success(DOMAIN customers))
  /\ UNCHANGED <<customers, contacts, deals, comms, nextId, scn, txn, gen, profiles, authUsers>>
  /\ revalidated' = {}

searchCustomers(u, query) ==
  /\ IF u = NULL THEN EarlyResultOf("searchCustomers", u, 0, query, unauthorizedError)
     ELSE ResultOf("searchCustomers", u, 0, query,
                   Success({c \in DOMAIN customers : ilike(customers[c].company_name, query)}))
  /\ UNCHANGED <<customers, contacts, deals, comms, nextId, scn, txn, gen, profiles, authUsers>>
  /\ revalidated' = {}

getContactsForCustomer(u, customerId) ==
  /\ IF u = NULL THEN EarlyResult("getContactsForCustomer", u, customerId, unauthorizedError)
     ELSE Result("getContactsForCustomer", u, customerId,
                 Success({k \in ContactsOf(customerId) : ContactSelectPolicy(u, contacts[k])}))
  /\ UNCHANGED <<customers, contacts, deals, comms, nextId, scn, txn, gen, profiles, authUsers>>
  /\ revalidated' = {}

getDealsForCustomer(u, customerId) ==
  /\ IF u = NULL
       THEN EarlyResult("getDealsForCustomer", u, customerId, sanitizeError(JsError("Unauthorized")))
     ELSE IF ~CustomerAssignedTo(u, customerId)
       THEN Result("getDealsForCustomer", u, customerId, sanitizeError(JsError("Forbidden")))
     ELSE Result("getDealsForCustomer", u, customerId,
                 Success({d \in DOMAIN deals : /\ deals[d].customer_id = customerId
                                               /\ DealSelectPolicy(u, deals[d])}))
  /\ UNCHANGED <<customers, contacts, deals, comms, nextId, scn, txn, gen, profiles, authUsers>>
  /\ revalidated' = {}

getAllDeals(u) ==
  /\ IF u = NULL THEN EarlyResult("getAllDeals", u, 0, sanitizeError(JsError("Unauthorized")))
     ELSE Result("getAllDeals", u, 0, Success({d \in DOMAIN deals : DealAssignedTo(u, d)}))
  /\ UNCHANGED <<customers, contacts, deals, comms, nextId, scn, txn, gen, profiles, authUsers>>
  /\ revalidated' = {}

getCommunicationsForCustomer(u, customerId) ==
  /\ IF u = NULL
       THEN EarlyResult("getCommunicationsForCustomer", u, customerId,
                        sanitizeError(JsError("Unauthorized")))
     ELSE IF ~CustomerAssignedTo(u, customerId)
       THEN Result("getCommunicationsForCustomer", u, customerId,
                   sanitizeError(JsError("Forbidden")))
     ELSE Result("getCommunicationsForCustomer", u, customerId,
                 Success({c \in DOMAIN comms : /\ comms[c].customer_id = customerId
                                               /\ CommSelectPolicy(u, comms[c])}))
  /\ UNCHANGED <<customers, contacts, deals, comms, nextId, scn, txn, gen, profiles, authUsers>>
  /\ revalidated' = {}

\* The rows the four queries of the search and of the dashboard select.
OwnCustomers(u) == {c \in DOMAIN customers : CustomerAssignedTo(u, c)}
\* The contact query without the row policy applied to it.
OwnContacts_Unfiltered(u) == {k \in DOMAIN contacts : SqlEq(contacts[k].created_by, u)}
OwnContacts(u) ==
  {k \in DOMAIN contacts : ContactSelectPolicy(u, contacts[k]) /\ SqlEq(contacts[k].created_by, u)}
OwnDeals(u) == {d \in DOMAIN deals : DealAssignedTo(u, d)}
OwnComms(u) == {c \in DOMAIN comms : CommLoggedBy(u, c)}

globalSearch(u, query) ==
  LET searchQuery == trim(query) IN
  /\ IF u = NULL
       THEN EarlyResultOf("globalSearch", u, 0, query, sanitizeError(JsError("Unauthorized")))
     ELSE IF Len(searchQuery) < 2
       THEN EarlyResultOf("globalSearch", u, 0, query, Success({}))
     ELSE ResultOf("globalSearch", u, 0, query,
            Success({<<"customer", c>> : c \in {x \in OwnCustomers(u) :
                                                  ilike(customers[x].company_name, searchQuery)}}
                    \cup {<<"contact", k>> : k \in {x \in OwnContacts(u) :
                                                      ilike(contacts[x].full_name, searchQuery)}}
                    \cup {<<"communication", c>> : c \in {x \in OwnComms(u) :
                                                            ilike(comms[x].subject, searchQuery)}}
                    \cup {<<"deal", d>> : d \in {x \in OwnDeals(u) :
                                                   ilike(deals[x].deal_name, searchQuery)}}))
  /\ UNCHANGED <<customers, contacts, deals, comms, nextId, scn, txn, gen, profiles, authUsers>>
  /\ revalidated' = {}

\* checkAuthAndEnsureProfile looks the profile up only once the session has a user.
getDashboardStats(u) ==
  /\ IF u = NULL
       THEN EarlyResult("getDashboardStats", u, 0, sanitizeError(JsError("Unauthorized")))
     ELSE Result("getDashboardStats", u, 0,
            Success([totalCustomers |-> Cardinality(OwnCustomers(u)),
                     totalContacts |-> Cardinality(OwnContacts(u)),
                     activeDeals |-> Cardinality({d \in OwnDeals(u) :
                                                    deals[d].stage \notin {"won", "lost"}}),
                     recentCommunications |-> Cardinality(OwnComms(u))]))
  /\ UNCHANGED <<customers, contacts, deals, comms, nextId, scn, txn, gen, profiles, authUsers>>
  /\ revalidated' = {}

getRecentActivity(u) ==
  /\ IF u = NULL
       THEN EarlyResult("getRecentActivity", u, 0, sanitizeError(JsError("Unauthorized")))
     ELSE Result("getRecentActivity", u, 0,
            Success({<<"customer", c>> : c \in OwnCustomers(u)}
                    \cup {<<"contact", k>> : k \in OwnContacts(u)}
                    \cup {<<"deal", d>> : d \in OwnDeals(u)}
                    \cup {<<"communication", c>> : c \in OwnComms(u)}))
  /\ UNCHANGED <<customers, contacts, deals, comms, nextId, scn, txn, gen, profiles, authUsers>>
  /\ revalidated' = {}

\* The catch block of a repository function: a failure thrown by the identity
\* provider, before the caller is known and any statement has reached the
\* store, or by a storage call (an error carrying a code), is returned as
\* sanitizeError of the thrown value.
RepositoryFunctions ==
  {"createCustomer", "updateCustomer", "deleteCustomer", "getCustomer", "getCustomers",
   "searchCustomers", "createContact", "updateContact", "deleteContact", "getContact",
   "getContactsForCustomer", "createDeal", "updateDeal", "deleteDeal", "getDeal",
   "getDealsForCustomer", "getAllDeals", "createCommunication", "updateCommunication",
   "deleteCommunication", "getCommunication", "getCommunicationsForCustomer",
   "globalSearch", "getDashboardStats", "getRecentActivity"}

Thrown ==
  {JsError("fetch failed"), JsError("JWT expired"), PostgrestError("08006"),
   [kind |-> "other", hasCode |-> FALSE, code |-> "", message |-> "timeout"]}

catch(op, error) ==
  /\ last' = [op |-> op, user |-> NULL, id |-> 0, res |-> sanitizeError(error),
              io |-> error.hasCode, thrown |-> error]
  /\ UNCHANGED <<customers, contacts, deals, comms, nextId, scn, txn, gen, profiles, authUsers>>
  /\ revalidated' = {}

\* ---------------------------------------------------------------- profiles
\* authUsers is auth.users: the registered identities, each with the full_name
\* of its raw_user_meta_data ("" when it has none). profiles is the profiles
\* table, keyed by its primary key id.
Email(u) == IF u = 1 THEN "ola@example.no" ELSE "kari@example.no"
\* email.split('@')[0]
LocalPart(email) ==
  LET at == CHOOSE i \in 1..Len(email) :
              /\ SubSeq(email, i, i) = "@"
              /\ \A j \in 1..(i - 1) : SubSeq(email, j, j) # "@"
  IN SubSeq(email, 1, at - 1)
FullNames == {"Kari Nordmann"}

\* The policies on profiles: any authenticated user may read every profile; an
\* update reaches the caller's own row; migration 001 has no INSERT policy,
\* migration 002 lets an authenticated user insert the row of their own id.
ProfileSelectPolicy(s, id) == SqlEq(s, id) \/ Authenticated(s)
ProfileUpdateUsing(s, id) == SqlEq(s, id)
ProfileInsertCheck(s, id) == gen = 2 /\ Authenticated(s) /\ SqlEq(s, id)

\* a || b on strings
OrElse(a, b) == IF a # "" THEN a ELSE b

UniqueViolation ==
  PostgrestErrorWith("23505", "duplicate key value violates unique constraint profiles_pkey")
ProfilesRlsViolation ==
  PostgrestErrorWith("42501", "new row violates row-level security policy for table profiles")
FetchFailure == PostgrestErrorWith("08006", "connection failure")

\* The User object of identity u.
User(u) == [id |-> u, full_name |-> authUsers[u], email |-> Email(u)]

\* options of ensureProfile; fullName "" is an absent fullName.
EnsureProfileOptions == [fullName : FullNames \cup {""}, forceCreate : BOOLEAN]
NoOptions == [fullName |-> "", forceCreate |-> FALSE]

\* Steps 1 and 2 of ensureProfile, for session s: the fetch fails, or the
\* profile is found and returned, or the call goes on to create it.
ensureProfileFetch(tbl, s, user, options, fetchFault) ==
  IF fetchFault
    THEN [done |-> TRUE, res |-> [success |-> FALSE, error |-> FetchFailure.message]]
  ELSE IF user.id \in DOMAIN tbl /\ ProfileSelectPolicy(s, user.id) /\ ~options.forceCreate
    THEN [done |-> TRUE, res |-> [success |-> TRUE, profile |-> tbl[user.id]]]
  ELSE [done |-> FALSE, res |-> [success |-> FALSE, error |-> ""]]

\* Step 3 of ensureProfile: the INSERT, checked against the INSERT policy and
\* then against the primary key.
ensureProfileCreate(tbl, s, user, options) ==
  LET row == [full_name |-> OrElse(options.fullName,
                              OrElse(user.full_name, OrElse(LocalPart(user.email), "New User"))),
              last_login_at |-> NOW]
  IN
  IF ~ProfileInsertCheck(s, user.id)
    THEN [res |-> [success |-> FALSE, error |-> ProfilesRlsViolation.message], tbl |-> tbl]
  ELSE IF user.id \in DOMAIN tbl
    THEN [res |-> [success |-> FALSE, error |-> UniqueViolation.message], tbl |-> tbl]
  ELSE [res |-> [success |-> TRUE, profile |-> row],
        tbl |-> [i \in DOMAIN tbl \cup {user.id} |-> IF i = user.id THEN row ELSE tbl[i]]]

\* ensureProfile run without interruption on table tbl: its result and the table after it.
ensureProfileOn(tbl, s, user, options, fetchFault) ==
  LET fetched == ensureProfileFetch(tbl, s, user, options, fetchFault) IN
  IF fetched.done THEN [res |-> fetched.res, tbl |-> tbl]
  ELSE ensureProfileCreate(tbl, s, user, options)

\* A call of ensureProfile by the signed-in identity u for their own user.
ensureProfile(u, options, fetchFault) ==
  LET out == ensureProfileOn(profiles, u, User(u), options, fetchFault) IN
  /\ u \in DOMAIN authUsers
  /\ profiles' = out.tbl
  /\ last' = [op |-> "ensureProfile", user |-> u, id |-> u, arg |-> options,
              res |-> out.res, io |-> TRUE, fault |-> fetchFault]
  /\ revalidated' = {}
  /\ UNCHANGED <<customers, contacts, deals, comms, nextId, scn, txn, gen, authUsers>>

\* Two calls of ensureProfile may run at once: writer w's call up to the end
\* of its fetch ...
ensureProfileRead(w, u, options) ==
  LET fetched == ensureProfileFetch(profiles, u, User(u), options, FALSE) IN
  /\ txn[w].pc = "idle"
  /\ u \in DOMAIN authUsers
  /\ IF fetched.done THEN
       /\ last' = [op |-> "ensureProfile", user |-> u, id |-> u, arg |-> options,
                   res |-> fetched.res, io |-> TRUE, fault |-> FALSE, writer |-> w]
       /\ UNCHANGED txn
     ELSE
       /\ txn' = [txn EXCEPT ![w] = [IdleTxn EXCEPT !.pc = "creating", !.user = u,
                                                   !.input = options]]
       /\ UNCHANGED last
  /\ UNCHANGED revalidated
  /\ UNCHANGED <<customers, contacts, deals, comms, nextId, scn, gen, profiles, authUsers>>

\* ... and its INSERT, against the table as it is by then.
ensureProfileInsert(w) ==
  LET u == txn[w].user
      out == ensureProfileCreate(profiles, u, User(u), txn[w].input)
  IN
  /\ txn[w].pc = "creating"
  /\ profiles' = out.tbl
  /\ last' = [op |-> "ensureProfile", user |-> u, id |-> u, arg |-> txn[w].input,
              res |-> out.res, io |-> TRUE, fault |-> FALSE, writer |-> w]
  /\ txn' = [txn EXCEPT ![w] = IdleTxn]
  /\ revalidated' = {}
  /\ UNCHANGED <<customers, contacts, deals, comms, nextId, scn, gen, authUsers>>

\* The trigger on_auth_user_created, AFTER INSERT ON auth.users of identity id
\* with metadata name fullName: it inserts the profile as the function's owner,
\* past the row policies. raised tells whether the INSERT raised an error that
\* the function let through: migration 002's function catches every error,
\* migration 001's catches none.
handle_new_user(tbl, id, fullName, insertFails) ==
  IF insertFails \/ id \in DOMAIN tbl
    THEN [raised |-> gen = 1, tbl |-> tbl]
  ELSE [raised |-> FALSE,
        tbl |-> [i \in DOMAIN tbl \cup {id} |->
                   IF i = id
                   THEN [full_name |-> IF gen = 1 THEN OrElse(fullName, "New User")
                                       ELSE OrElse(fullName, OrElse(Email(id), "New User")),
                         last_login_at |-> NULL]
                   ELSE tbl[i]]]

\* What signUpWithProfile returns once the identity is registered.
SignUpResult(u, ensured) == [success |-> TRUE, user |-> u]

\* signUpWithProfile for identity u and name fullName. insertFails: the
\* trigger's INSERT fails; session: the registration returns a session (no
\* e-mail confirmation pending), so that the client's next statements run as
\* u and not as the anonymous role; fetchFault: the profile fetch fails.
signUpWithProfile(u, fullName, insertFails, session, fetchFault) ==
  LET trg == handle_new_user(profiles, u, fullName, insertFails)
      ensured == ensureProfileOn(trg.tbl, IF session THEN u ELSE NULL,
                                 [id |-> u, full_name |-> fullName, email |-> Email(u)],
                                 [fullName |-> fullName, forceCreate |-> FALSE], fetchFault)
  IN
  /\ IF u \in DOMAIN authUsers THEN
       /\ last' = [op |-> "signUpWithProfile", user |-> u, id |-> u,
                   res |-> [success |-> FALSE, error |-> "User already registered"],
                   io |-> TRUE, registered |-> FALSE]
       /\ UNCHANGED <<profiles, authUsers>>
     ELSE IF trg.raised THEN
       /\ last' = [op |-> "signUpWithProfile", user |-> u, id |-> u,
                   res |-> [success |-> FALSE, error |-> "Database error saving new user"],
                   io |-> TRUE, registered |-> FALSE]
       /\ UNCHANGED <<profiles, authUsers>>
     ELSE
       /\ authUsers' = [i \in DOMAIN authUsers \cup {u} |->
                          IF i = u THEN fullName ELSE authUsers[i]]
       /\ profiles' = ensured.tbl
       /\ last' = [op |-> "signUpWithProfile", user |-> u, id |-> u,
                   res |-> SignUpResult(u, ensured.res),
                   io |-> TRUE, registered |-> TRUE, ensured |-> ensured.res,
                   triggered |-> u \in DOMAIN trg.tbl, session |-> session,
                   fault |-> fetchFault]
  /\ revalidated' = {}
  /\ UNCHANGED <<customers, contacts, deals, comms, nextId, scn, txn, gen>>

\* updateLastLogin, which checkAuthAndEnsureProfile starts and does not wait
\* for: the UPDATE reaches the caller's row if there is one; a failed or
\* abandoned UPDATE (updateFault) changes nothing and is only logged.
updateLastLogin(tbl, s, updateFault) ==
  IF ~updateFault /\ s \in DOMAIN tbl /\ ProfileUpdateUsing(s, s)
  THEN [tbl EXCEPT ![s] = [@ EXCEPT !.last_login_at = NOW]]
  ELSE tbl

\* The check that reports the profile failure as a failed authentication.
AuthCheckResult_Blocking(s, ensured) ==
  IF ensured.success THEN [authenticated |-> TRUE, user |-> s, profile |-> ensured.profile]
  ELSE [authenticated |-> FALSE, error |-> ensured.error]
\* What checkAuthAndEnsureProfile returns for the session's user s.
AuthCheckResult(s, ensured) ==
  [authenticated |-> TRUE, user |-> s,
   profile |-> IF ensured.success THEN ensured.profile
               ELSE [full_name |-> undefined, last_login_at |-> NULL]]

\* checkAuthAndEnsureProfile for the session of s (NULL: no session).
\* sessionError: auth.getUser() reports an error.
checkAuthAndEnsureProfile(s, sessionError, fetchFault, updateFault) ==
  /\ s # NULL => s \in DOMAIN authUsers
  /\ IF sessionError \/ s = NULL THEN
       /\ last' = [op |-> "checkAuthAndEnsureProfile", user |-> NULL, id |-> 0,
                   res |-> [authenticated |-> FALSE,
                            error |-> IF sessionError THEN "session" ELSE "No active session"],
                   io |-> FALSE]
       /\ UNCHANGED profiles
     ELSE
       LET ensured == ensureProfileOn(profiles, s, User(s), NoOptions, fetchFault) IN
       /\ profiles' = updateLastLogin(ensured.tbl, s, updateFault)
       /\ last' = [op |-> "checkAuthAndEnsureProfile", user |-> s, id |-> s,
                   res |-> AuthCheckResult(s, ensured.res), io |-> TRUE,
                   ensured |-> ensured.res, fault |-> fetchFault,
                   updateFault |-> updateFault]
  /\ revalidated' = {}
  /\ UNCHANGED <<customers, contacts, deals, comms, nextId, scn, txn, gen, authUsers>>

\* ---------------------------------------------------------------- migration 002
\* Migration 002 replaces the policies of migration 001 on customers, contacts
\* and deals; the rows written before it stay as they are. It also inserts a
\* profile for every identity that has none.
applyMigration002 ==
  /\ gen = 1
  /\ gen' = 2
  /\ Result("applyMigration002", NULL, 0, Success(0))
  /\ profiles' = [u \in DOMAIN authUsers |->
                    IF u \in DOMAIN profiles THEN profiles[u]
                    ELSE [full_name |-> OrElse(authUsers[u], OrElse(Email(u), "User")),
                          last_login_at |-> NULL]]
  /\ UNCHANGED <<customers, contacts, deals, comms, nextId, scn, txn, authUsers>>
  /\ revalidated' = {}

\* ---------------------------------------------------------------- specification: customers
EmptyTable == [x \in {} |-> NULL]

Init ==
  /\ customers = EmptyTable
  /\ contacts = EmptyTable
  /\ deals = EmptyTable
  /\ comms = EmptyTable
  /\ nextId = [customers |-> 1, contacts |-> 1, deals |-> 1, comms |-> 1]
  /\ last = [op |-> "init", user |-> NULL, id |-> 0, res |-> Success(0)]
  /\ scn = ScnIdle
  /\ txn = NoTxn
  /\ gen = 2
  /\ profiles = [u \in Users |-> [full_name |-> Email(u), last_login_at |-> NULL]]
  /\ authUsers = [u \in Users |-> ""]
  /\ revalidated = {}

NextCustomer ==
  \/ \E u \in Callers, input \in CreateCustomerInputs : createCustomer(u, input)
  \/ \E u \in Callers, input \in UpdateCustomerInputs : updateCustomer(u, input)
  \/ \E u \in Callers, id \in 1..MaxCustomers : deleteCustomer(u, id)
  \/ \E u \in Callers, id \in 1..MaxCustomers : DeleteCustomerButton(u, id)
  \/ \E u \in Callers, id \in 1..MaxCustomers : getCustomer(u, id)

SpecCustomer == Init /\ [][NextCustomer]_vars

\* ---------------------------------------------------------------- specification: contacts
\* The customers a deployment can hold when the contact operations start: every
\* id created, by any user, assigned to any user or to nobody.
CustomerTables ==
  [1..MaxCustomers -> [company_name : {"Acme"}, created_by : Users, assigned_to : Users \cup {NULL}]]

InitContact ==
  /\ customers \in CustomerTables
  /\ contacts = EmptyTable
  /\ deals = EmptyTable
  /\ comms = EmptyTable
  /\ nextId = [customers |-> MaxCustomers + 1, contacts |-> 1, deals |-> 1, comms |-> 1]
  /\ last = [op |-> "init", user |-> NULL, id |-> 0, res |-> Success(0)]
  /\ scn = ScnIdle
  /\ txn = NoTxn
  /\ gen = 2
  /\ profiles = [u \in Users |-> [full_name |-> Email(u), last_login_at |-> NULL]]
  /\ authUsers = [u \in Users |-> ""]
  /\ revalidated = {}

NextContact ==
  \/ \E u \in Callers, input \in CreateContactInputs : createContact(u, input)
  \/ \E u \in Callers, input \in UpdateContactInputs : updateContact(u, input)
  \/ \E u \in Callers, id \in 1..MaxContacts : deleteContact(u, id)
  \/ \E u \in Callers, id \in 1..MaxContacts : getContact(u, id)

SpecContact == InitContact /\ [][NextContact]_vars

\* ---------------------------------------------------------------- specification: contact policies
\* One customer, created by and assigned to anybody, holding contacts its
\* creator entered; one more contact can be created. The operations read,
\* insert, rename and delete contacts.
OneCustomerTables ==
  [{1} -> [company_name : {"Acme"}, created_by : Users, assigned_to : Users \cup {NULL}]]

InitContactPolicy ==
  /\ customers \in OneCustomerTables
  /\ contacts = [k \in 1..(MaxContacts - 1) |->
                   [customer_id |-> 1, full_name |-> "Kari", is_primary |-> FALSE,
                    created_by |-> customers[1].created_by]]
  /\ deals = EmptyTable
  /\ comms = EmptyTable
  /\ nextId = [customers |-> MaxCustomers + 1, contacts |-> MaxContacts, deals |-> 1, comms |-> 1]
  /\ last = [op |-> "init", user |-> NULL, id |-> 0, res |-> Success(0)]
  /\ scn = ScnIdle
  /\ txn = NoTxn
  /\ gen = 2
  /\ profiles = [u \in Users |-> [full_name |-> Email(u), last_login_at |-> NULL]]
  /\ authUsers = [u \in Users |-> ""]
  /\ revalidated = {}

PlainContactInputs == [customer_id : {1}, full_name : ContactNames, is_primary : {FALSE}]
RenameInputs == [id : 1..MaxContacts, full_name : {"Ola"}]

NextContactPolicy ==
  \/ \E u \in Callers, input \in PlainContactInputs : createContact(u, input)
  \/ \E u \in Callers, input \in RenameInputs : updateContact(u, input)
  \/ \E u \in Callers, id \in 1..MaxContacts : deleteContact(u, id)
  \/ \E u \in Callers, id \in 1..MaxContacts : getContact(u, id)

SpecContactPolicy == InitContactPolicy /\ [][NextContactPolicy]_vars

\* ---------------------------------------------------------------- specification: concurrent contact updates
\* Every customer holds MaxContacts contacts, at most one of them primary.
PrimaryContactTables ==
  {t \in [1..MaxContacts -> [customer_id : 1..MaxCustomers, full_name : ContactNames,
                             is_primary : BOOLEAN, created_by : Users]] :
     /\ \A k \in DOMAIN t : t[k].created_by = customers[t[k].customer_id].created_by
     /\ \A k1, k2 \in DOMAIN t :
          (t[k1].customer_id = t[k2].customer_id /\ t[k1].is_primary /\ t[k2].is_primary)
            => k1 = k2}

InitRace ==
  /\ customers \in CustomerTables
  /\ contacts \in PrimaryContactTables
  /\ deals = EmptyTable
  /\ comms = EmptyTable
  /\ nextId = [customers |-> MaxCustomers + 1, contacts |-> MaxContacts + 1,
               deals |-> 1, comms |-> 1]
  /\ last = [op |-> "init", user |-> NULL, id |-> 0, res |-> Success(0)]
  /\ scn = ScnIdle
  /\ txn = NoTxn
  /\ gen = 2
  /\ profiles = [u \in Users |-> [full_name |-> Email(u), last_login_at |-> NULL]]
  /\ authUsers = [u \in Users |-> ""]
  /\ revalidated = {}

SetPrimaryInputs == [id : 1..MaxContacts, is_primary : BOOLEAN]

NextRace ==
  \/ \E w \in Writers, u \in Callers, input \in SetPrimaryInputs : updateContactStart(w, u, input)
  \/ \E w \in Writers : triggerSnapshot(w)
  \/ \E w \in Writers : triggerClear(w)
  \/ \E w \in Writers : updateContactCommit(w)
  \/ \E w \in Writers : deadlockAbort(w)

SpecRace == InitRace /\ [][NextRace]_vars

\* ---------------------------------------------------------------- specification: deals and communication logs
\* The deployment starts under the policies of migration 001, holding customers
\* and possibly a contact; migration 002 is applied at some point.
ContactTables ==
  {EmptyTable} \cup
  {[k \in {1} |-> [customer_id |-> c, full_name |-> "Kari", is_primary |-> FALSE,
                   created_by |-> customers[c].created_by]] : c \in DOMAIN customers}

InitDealComm ==
  /\ customers \in CustomerTables
  /\ contacts \in ContactTables
  /\ deals = EmptyTable
  /\ comms = EmptyTable
  /\ nextId = [customers |-> MaxCustomers + 1, contacts |-> MaxContacts + 1,
               deals |-> 1, comms |-> 1]
  /\ last = [op |-> "init", user |-> NULL, id |-> 0, res |-> Success(0)]
  /\ scn = ScnIdle
  /\ txn = NoTxn
  /\ gen = 1
  /\ profiles = [u \in Users |-> [full_name |-> Email(u), last_login_at |-> NULL]]
  /\ authUsers = [u \in Users |-> ""]
  /\ revalidated = {}

\* The updates of a customer that change its assignee only.
ReassignInputs == [id : 1..MaxCustomers, assigned_to : Users \cup {NULL}]

NextDeal ==
  \/ applyMigration002
  \/ \E u \in Callers, input \in ReassignInputs : updateCustomer(u, input)
  \/ \E u \in Callers, input \in CreateDealInputs : createDeal(u, input)
  \/ \E u \in Callers, input \in UpdateDealInputs : updateDeal(u, input)
  \/ \E u \in Callers, id \in 1..MaxDeals : deleteDeal(u, id)
  \/ \E u \in Callers, id \in 1..MaxDeals : getDeal(u, id)

SpecDeal == InitDealComm /\ [][NextDeal]_vars

NextComm ==
  \/ applyMigration002
  \/ \E u \in Callers, input \in ReassignInputs : updateCustomer(u, input)
  \/ \E u \in Callers, input \in CreateCommunicationInputs : createCommunication(u, input)
  \/ \E u \in Callers, input \in UpdateCommunicationInputs : updateCommunication(u, input)
  \/ \E u \in Callers, id \in 1..MaxComms : deleteCommunication(u, id)
  \/ \E u \in Callers, id \in 1..MaxComms : getCommunication(u, id)

SpecComm == InitDealComm /\ [][NextComm]_vars

\* The creation of deals and communication logs, under either generation.
NextCreate ==
  \/ applyMigration002
  \/ \E u \in Callers, input \in ReassignInputs : updateCustomer(u, input)
  \/ \E u \in Callers, input \in CreateDealInputs : createDeal(u, input)
  \/ \E u \in Callers, input \in CreateCommunicationInputs : createCommunication(u, input)

SpecCreate == InitDealComm /\ [][NextCreate]_vars

\* ---------------------------------------------------------------- specification: deal stages
\* One customer holding one deal that its assignee of the time created under
\* migration 001 (so created_by is null), in any stage, not yet closed;
\* migration 002 is in force. The deal is updated through every stage.
OneDealTables ==
  [{1} -> [customer_id : {1}, deal_name : DealNames, stage : dealStageEnum,
           actual_close_date : {NULL}, assigned_to : Users, created_by : {NULL}]]

InitDealStage ==
  /\ customers \in OneCustomerTables
  /\ contacts = EmptyTable
  /\ deals \in OneDealTables
  /\ comms = EmptyTable
  /\ nextId = [customers |-> MaxCustomers + 1, contacts |-> 1, deals |-> MaxDeals + 1, comms |-> 1]
  /\ last = [op |-> "init", user |-> NULL, id |-> 0, res |-> Success(0)]
  /\ scn = ScnIdle
  /\ txn = NoTxn
  /\ gen = 2
  /\ profiles = [u \in Users |-> [full_name |-> Email(u), last_login_at |-> NULL]]
  /\ authUsers = [u \in Users |-> ""]
  /\ revalidated = {}

StageDealInputs ==
  [id : {1}, customer_id : {1}, deal_name : DealNames, stage : dealStageEnum] \cup
  [id : {1}, customer_id : {1}, deal_name : DealNames, stage : dealStageEnum,
   actual_close_date : {"", DateStrings[1]}]

NextDealStage ==
  \/ \E u \in Callers, input \in StageDealInputs : updateDeal(u, input)
  \/ \E u \in Callers : getDeal(u, 1)

SpecDealStage == InitDealStage /\ [][NextDealStage]_vars

\* ---------------------------------------------------------------- specification: communication dates
\* One customer and no log yet; logs are created with a past, present or
\* future communication date and read back.
InitCommDate ==
  /\ customers \in OneCustomerTables
  /\ contacts = EmptyTable
  /\ deals = EmptyTable
  /\ comms = EmptyTable
  /\ nextId = [customers |-> MaxCustomers + 1, contacts |-> 1, deals |-> 1, comms |-> 1]
  /\ last = [op |-> "init", user |-> NULL, id |-> 0, res |-> Success(0)]
  /\ scn = ScnIdle
  /\ txn = NoTxn
  /\ gen = 2
  /\ profiles = [u \in Users |-> [full_name |-> Email(u), last_login_at |-> NULL]]
  /\ authUsers = [u \in Users |-> ""]
  /\ revalidated = {}

DatedCommunicationInputs ==
  [customer_id : {1}, subject : Subjects,
   communication_date : {DateTimeStrings[i] : i \in 1..Len(DateTimeStrings)}]

NextCommDate ==
  \/ \E u \in Callers, input \in DatedCommunicationInputs : createCommunication(u, input)
  \/ \E u \in Callers, id \in 1..MaxComms : getCommunication(u, id)
  \/ \E u \in Callers, id \in 1..MaxComms : deleteCommunication(u, id)

SpecCommDate == InitCommDate /\ [][NextCommDate]_vars

\* ---------------------------------------------------------------- specification: create and read back
\* From the empty store under migration 002, every entity is created and read
\* back by its id.
NextRoundTrip ==
  \/ \E u \in Callers, input \in CreateCustomerInputs : createCustomer(u, input)
  \/ \E u \in Callers, id \in 1..MaxCustomers : getCustomer(u, id)
  \/ \E u \in Callers, input \in CreateContactInputs : createContact(u, input)
  \/ \E u \in Callers, id \in 1..MaxContacts : getContact(u, id)
  \/ \E u \in Callers, input \in CreateDealInputs : createDeal(u, input)
  \/ \E u \in Callers, id \in 1..MaxDeals : getDeal(u, id)
  \/ \E u \in Callers, input \in CreateCommunicationInputs : createCommunication(u, input)
  \/ \E u \in Callers, id \in 1..MaxComms : getCommunication(u, id)

SpecRoundTrip == Init /\ [][NextRoundTrip]_vars

\* ---------------------------------------------------------------- specification: cascade
\* One customer holding a contact, a deal and a communication log, under
\* migration 002. The customer is deleted and its children are read by id.
OneCommTables ==
  [{1} -> [customer_id : {1}, contact_id : {NULL, 1}, subject : Subjects,
           communication_date : {1}, logged_by : Users]]

InitCascade ==
  /\ customers \in OneCustomerTables
  /\ contacts \in ContactTables \ {EmptyTable}
  /\ deals \in {d \in OneDealTables : d[1].stage \in SampleStages}
  /\ comms \in OneCommTables
  /\ nextId = [customers |-> MaxCustomers + 1, contacts |-> MaxContacts + 1,
               deals |-> MaxDeals + 1, comms |-> MaxComms + 1]
  /\ last = [op |-> "init", user |-> NULL, id |-> 0, res |-> Success(0)]
  /\ scn = ScnIdle
  /\ txn = NoTxn
  /\ gen = 2
  /\ profiles = [u \in Users |-> [full_name |-> Email(u), last_login_at |-> NULL]]
  /\ authUsers = [u \in Users |-> ""]
  /\ revalidated = {}

NextCascade ==
  \/ \E u \in Callers : deleteCustomer(u, 1)
  \/ \E u \in Callers : getContact(u, 1)
  \/ \E u \in Callers : getDeal(u, 1)
  \/ \E u \in Callers : getCommunication(u, 1)

SpecCascade == InitCascade /\ [][NextCascade]_vars

\* ---------------------------------------------------------------- specification: every repository function
\* A store emptied by earlier deletes, under migration 002, with room for one
\* more row in each table. Every repository function is called by every
\* caller, the anonymous one included, with an input its schema accepts and
\* one it refuses; any call may also end in its catch block.
InitRepository ==
  /\ customers = EmptyTable
  /\ contacts = EmptyTable
  /\ deals = EmptyTable
  /\ comms = EmptyTable
  /\ nextId = [customers |-> MaxCustomers, contacts |-> MaxContacts,
               deals |-> MaxDeals, comms |-> MaxComms]
  /\ last = [op |-> "init", user |-> NULL, id |-> 0, res |-> Success(0)]
  /\ scn = ScnIdle
  /\ txn = NoTxn
  /\ gen = 2
  /\ profiles = [u \in Users |-> [full_name |-> Email(u), last_login_at |-> NULL]]
  /\ authUsers = [u \in Users |-> ""]
  /\ revalidated = {}

NextRepository ==
  \/ \E u \in Callers,
        input \in {i \in CreateCustomerInputs :
                     /\ i.company_name # "Acme AS"
                     /\ "assigned_to" \in DOMAIN i => i.assigned_to = 1} :
       createCustomer(u, input)
  \/ \E u \in Callers,
        input \in {i \in UpdateCustomerInputs :
                     /\ DOMAIN i = {"id", "company_name"}
                     /\ i.id = MaxCustomers
                     /\ i.company_name # "Acme AS"} :
       updateCustomer(u, input)
  \/ \E u \in Callers : deleteCustomer(u, MaxCustomers)
  \/ \E u \in Callers : getCustomer(u, MaxCustomers)
  \/ \E u \in Callers : getCustomers(u)
  \/ \E u \in Callers, query \in {"ac", "xy"} : searchCustomers(u, query)
  \/ \E u \in Callers,
        input \in {i \in CreateContactInputs : i.customer_id = MaxCustomers /\ ~i.is_primary} :
       createContact(u, input)
  \/ \E u \in Callers,
        input \in {i \in UpdateContactInputs : i.id = MaxContacts /\ "full_name" \in DOMAIN i} :
       updateContact(u, input)
  \/ \E u \in Callers : deleteContact(u, MaxContacts)
  \/ \E u \in Callers : getContact(u, MaxContacts)
  \/ \E u \in Callers : getContactsForCustomer(u, MaxCustomers)
  \/ \E u \in Callers,
        input \in {i \in CreateDealInputs :
                     /\ i.customer_id = MaxCustomers
                     /\ i.stage = "lead"
                     /\ "actual_close_date" \notin DOMAIN i} :
       createDeal(u, input)
  \/ \E u \in Callers,
        input \in {i \in UpdateDealInputs :
                     /\ i.id = MaxDeals
                     /\ i.customer_id = MaxCustomers
                     /\ i.stage = "lead"
                     /\ "actual_close_date" \notin DOMAIN i} :
       updateDeal(u, input)
  \/ \E u \in Callers : deleteDeal(u, MaxDeals)
  \/ \E u \in Callers : getDeal(u, MaxDeals)
  \/ \E u \in Callers : getDealsForCustomer(u, MaxCustomers)
  \/ \E u \in Callers : getAllDeals(u)
  \/ \E u \in Callers,
        input \in {i \in CreateCommunicationInputs :
                     /\ i.customer_id = MaxCustomers
                     /\ "contact_id" \notin DOMAIN i
                     /\ i.communication_date = DateTimeStrings[1]} :
       createCommunication(u, input)
  \/ \E u \in Callers,
        input \in {i \in UpdateCommunicationInputs :
                     /\ i.id = MaxComms
                     /\ i.customer_id = MaxCustomers
                     /\ "contact_id" \notin DOMAIN i
                     /\ i.communication_date = DateTimeStrings[1]} :
       updateCommunication(u, input)
  \/ \E u \in Callers : deleteCommunication(u, MaxComms)
  \/ \E u \in Callers : getCommunication(u, MaxComms)
  \/ \E u \in Callers : getCommunicationsForCustomer(u, MaxCustomers)
  \/ \E u \in Callers, query \in SearchQueries : globalSearch(u, query)
  \/ \E u \in Callers : getDashboardStats(u)
  \/ \E u \in Callers : getRecentActivity(u)
  \/ \E op \in RepositoryFunctions, error \in Thrown : catch(op, error)

SpecRepository == InitRepository /\ [][NextRepository]_vars

\* ---------------------------------------------------------------- specification: contacts of another customer
\* Two customers of one user, each with a contact of its own, and possibly a
\* log on the first customer; logs are created and updated naming either
\* contact, under migration 002.
InitTwoCustomers ==
  /\ \E a \in Users :
       /\ customers = [c \in 1..(MaxCustomers + 1) |->
                         [company_name |-> "Acme", created_by |-> a, assigned_to |-> a]]
       /\ contacts = [k \in 1..MaxContacts |->
                        [customer_id |-> IF k = 1 THEN 1 ELSE MaxCustomers + 1,
                         full_name |-> "Kari", is_primary |-> FALSE, created_by |-> a]]
       /\ comms \in {EmptyTable,
                     [c \in {MaxComms} |->
                        [customer_id |-> 1, contact_id |-> NULL, subject |-> "Call",
                         communication_date |-> 1, logged_by |-> a]]}
  /\ deals = EmptyTable
  /\ nextId = [customers |-> MaxCustomers + 2, contacts |-> MaxContacts + 1, deals |-> 1,
               comms |-> IF comms = EmptyTable THEN MaxComms ELSE MaxComms + 1]
  /\ last = [op |-> "init", user |-> NULL, id |-> 0, res |-> Success(0)]
  /\ scn = ScnIdle
  /\ txn = NoTxn
  /\ gen = 2
  /\ profiles = [u \in Users |-> [full_name |-> Email(u), last_login_at |-> NULL]]
  /\ authUsers = [u \in Users |-> ""]
  /\ revalidated = {}

NextTwoCustomers ==
  \/ \E u \in Callers, input \in CreateCommunicationInputs : createCommunication(u, input)
  \/ \E u \in Callers, input \in UpdateCommunicationInputs : updateCommunication(u, input)
  \/ \E u \in Callers, id \in 1..MaxComms : getCommunication(u, id)

SpecTwoCustomers == InitTwoCustomers /\ [][NextTwoCustomers]_vars

\* ---------------------------------------------------------------- specification: profiles
\* No identity is registered yet and migration 001 is in force. Identities
\* sign up, sign in and have their profile ensured, one call at a time;
\* migration 002 is applied at some point.
InitProfile ==
  /\ customers = EmptyTable
  /\ contacts = EmptyTable
  /\ deals = EmptyTable
  /\ comms = EmptyTable
  /\ nextId = [customers |-> 1, contacts |-> 1, deals |-> 1, comms |-> 1]
  /\ last = [op |-> "init", user |-> NULL, id |-> 0, res |-> Success(0)]
  /\ scn = ScnIdle
  /\ txn = NoTxn
  /\ gen = 1
  /\ profiles = EmptyTable
  /\ authUsers = EmptyTable
  /\ revalidated = {}

NextProfile ==
  \/ applyMigration002
  \/ \E u \in Users, fullName \in FullNames, insertFails \in BOOLEAN, session \in BOOLEAN,
        fetchFault \in BOOLEAN :
       signUpWithProfile(u, fullName, insertFails, session, fetchFault)
  \/ \E s \in Callers, sessionError \in BOOLEAN, fetchFault \in BOOLEAN,
        updateFault \in BOOLEAN :
       checkAuthAndEnsureProfile(s, sessionError, fetchFault, updateFault)
  \/ \E u \in Users, options \in EnsureProfileOptions, fetchFault \in BOOLEAN :
       ensureProfile(u, options, fetchFault)

SpecProfile == InitProfile /\ [][NextProfile]_vars

\* ---------------------------------------------------------------- specification: concurrent ensureProfile
\* Migration 002 is in force and every identity is registered, none with a
\* profile yet (the trigger's INSERT failed and was caught). The writers'
\* calls of ensureProfile interleave.
InitProfileRace ==
  /\ customers = EmptyTable
  /\ contacts = EmptyTable
  /\ deals = EmptyTable
  /\ comms = EmptyTable
  /\ nextId = [customers |-> 1, contacts |-> 1, deals |-> 1, comms |-> 1]
  /\ last = [op |-> "init", user |-> NULL, id |-> 0, res |-> Success(0)]
  /\ scn = ScnIdle
  /\ txn = NoTxn
  /\ gen = 2
  /\ profiles = EmptyTable
  /\ authUsers = [u \in Users |-> ""]
  /\ revalidated = {}

NextProfileRace ==
  \/ \E w \in Writers, u \in Users, options \in EnsureProfileOptions :
       ensureProfileRead(w, u, options)
  \/ \E w \in Writers : ensureProfileInsert(w)

SpecProfileRace == InitProfileRace /\ [][NextProfileRace]_vars

\* ---------------------------------------------------------------- specification: logs and their contacts
\* The two customers and their contacts of InitTwoCustomers. Logs are created,
\* updated (also onto the other customer, with or without naming a contact)
\* while contacts are updated and deleted and customers deleted.
MoveCommunicationInputs ==
  [id : 1..MaxComms, customer_id : 1..(MaxCustomers + 1), subject : Subjects,
   communication_date : {DateTimeStrings[1]}] \cup
  [id : 1..MaxComms, customer_id : 1..(MaxCustomers + 1),
   contact_id : (1..MaxContacts) \cup {NULL}, subject : Subjects,
   communication_date : {DateTimeStrings[1]}]

NextLogContact ==
  \/ \E u \in Users, input \in {i \in CreateCommunicationInputs : Len(i.subject) >= 1} :
       createCommunication(u, input)
  \/ \E u \in Users, input \in MoveCommunicationInputs : updateCommunication(u, input)
  \/ \E u \in Users, input \in UpdateContactInputs : updateContact(u, input)
  \/ \E u \in Users, id \in 1..MaxContacts : deleteContact(u, id)
  \/ \E u \in Users, id \in 1..(MaxCustomers + 1) : deleteCustomer(u, id)

SpecLogContact == InitTwoCustomers /\ [][NextLogContact]_vars

\* ---------------------------------------------------------------- specification: search
\* The customer and contacts of InitContactPolicy. Contacts and logs are
\* added, the customer is reassigned, and every caller searches.
NextSearch ==
  \/ \E u \in Callers, input \in PlainContactInputs : createContact(u, input)
  \/ \E u \in Callers, input \in ReassignInputs : updateCustomer(u, input)
  \/ \E u \in Callers,
        input \in {i \in CreateCommunicationInputs :
                     /\ Len(i.subject) >= 1
                     /\ "contact_id" \notin DOMAIN i
                     /\ i.communication_date = DateTimeStrings[1]} :
       createCommunication(u, input)
  \/ \E u \in Callers, query \in {"ka", "ac", "al", "a"} : globalSearch(u, query)

SpecSearch == InitContactPolicy /\ [][NextSearch]_vars

\* ---------------------------------------------------------------- customers: concurrent calls
\* updateCustomer and deleteCustomer read the row and check the caller against
\* it in one statement and write in a later one; other calls run in between.
\* txn[w] holds the call writer w is in the middle of.

\* updateCustomer up to its ownership check.
updateCustomerCheck(w, u, input) ==
  LET id == input.id IN
  /\ txn[w].pc = "idle"
  /\ IF u = NULL THEN
       /\ EarlyResultOf("updateCustomer", u, id, input, unauthorizedError)
       /\ UNCHANGED txn
     ELSE IF ~updateCustomerSchemaOk(input) THEN
       /\ EarlyResultOf("updateCustomer", u, id, input, sanitizeError(ZodError))
       /\ UNCHANGED txn
     ELSE IF ~(id \in DOMAIN customers /\ CustomerSelectPolicy(u, customers[id])) THEN
       /\ ResultOf("updateCustomer", u, id, input, sanitizeError(NoRowsError))
       /\ UNCHANGED txn
     ELSE IF ~isOwnerOrAssigned(u, customers[id]) THEN
       /\ ResultOf("updateCustomer", u, id, input, forbiddenError)
       /\ UNCHANGED txn
     ELSE
       /\ txn' = [txn EXCEPT ![w] = [IdleTxn EXCEPT !.pc = "checked", !.user = u,
                                                    !.input = input]]
       /\ UNCHANGED last
  /\ revalidated' = IF txn' # txn THEN revalidated ELSE {}
  /\ UNCHANGED <<customers, contacts, deals, comms, nextId, scn, gen, profiles, authUsers>>

\* The UPDATE statement of updateCustomer and its return: the statement
\* reports no error when the row is gone or the policy filters it out.
updateCustomerWrite(w) ==
  LET u == txn[w].user
      id == txn[w].input.id
      updateData == Restrict(txn[w].input, DOMAIN txn[w].input \ {"id"})
  IN
  /\ txn[w].pc = "checked"
  /\ IF ~(id \in DOMAIN customers /\ CustomerUpdateUsing(u, customers[id])) THEN
       /\ ResultOf("updateCustomer", u, id, txn[w].input, Success(id))
       /\ UNCHANGED customers
     ELSE IF ~CustomerUpdateCheck(u, Merge(customers[id], updateData)) THEN
       /\ ResultOf("updateCustomer", u, id, txn[w].input, sanitizeError(RlsViolation))
       /\ UNCHANGED customers
     ELSE
       /\ customers' = [customers EXCEPT ![id] = Merge(@, updateData)]
       /\ ResultOf("updateCustomer", u, id, txn[w].input, Success(id))
  /\ txn' = [txn EXCEPT ![w] = IdleTxn]
  /\ revalidated' = IF IsSuccess(last'.res)
                     THEN {CustomersPath, CustomerPath(id)}
                     ELSE {}
  /\ UNCHANGED <<contacts, deals, comms, nextId, scn, gen, profiles, authUsers>>

\* deleteCustomer up to its ownership check.
deleteCustomerCheck(w, u, id) ==
  /\ txn[w].pc = "idle"
  /\ IF u = NULL THEN
       /\ EarlyResultOf("deleteCustomer", u, id, [id |-> id], unauthorizedError)
       /\ UNCHANGED txn
     ELSE IF ~(id \in DOMAIN customers /\ CustomerSelectPolicy(u, customers[id])) THEN
       /\ ResultOf("deleteCustomer", u, id, [id |-> id], sanitizeError(NoRowsError))
       /\ UNCHANGED txn
     ELSE IF ~isOwnerOrAssigned(u, customers[id]) THEN
       /\ ResultOf("deleteCustomer", u, id, [id |-> id], forbiddenError)
       /\ UNCHANGED txn
     ELSE
       /\ txn' = [txn EXCEPT ![w] = [IdleTxn EXCEPT !.pc = "checkedDelete", !.user = u,
                                                    !.input = [id |-> id]]]
       /\ UNCHANGED last
  /\ revalidated' = IF txn' # txn THEN revalidated ELSE {}
  /\ UNCHANGED <<customers, contacts, deals, comms, nextId, scn, gen, profiles, authUsers>>

\* The DELETE statement of deleteCustomer and its return.
deleteCustomerWrite(w) ==
  LET u == txn[w].user
      id == txn[w].input.id
  IN
  /\ txn[w].pc = "checkedDelete"
  /\ IF ~(id \in DOMAIN customers /\ CustomerDeleteUsing(u, customers[id])) THEN
       /\ UNCHANGED <<customers, contacts, deals, comms>>
     ELSE
       /\ CascadeDeleteCustomer(id)
  /\ ResultOf("deleteCustomer", u, id, txn[w].input, Success(id))
  /\ txn' = [txn EXCEPT ![w] = IdleTxn]
  /\ revalidated' = {CustomersPath}
  /\ UNCHANGED <<nextId, scn, gen, profiles, authUsers>>

\* ---------------------------------------------------------------- specification: concurrent customer calls
\* Customers of any creator and assignee under migration 002; the writers
\* rename, reassign and delete them, each call in two steps.
InitCustomerRace ==
  /\ customers \in CustomerTables
  /\ contacts = EmptyTable
  /\ deals = EmptyTable
  /\ comms = EmptyTable
  /\ nextId = [customers |-> MaxCustomers + 1, contacts |-> 1, deals |-> 1, comms |-> 1]
  /\ last = [op |-> "init", user |-> NULL, id |-> 0, res |-> Success(0)]
  /\ scn = ScnIdle
  /\ txn = NoTxn
  /\ gen = 2
  /\ profiles = [u \in Users |-> [full_name |-> Email(u), last_login_at |-> NULL]]
  /\ authUsers = [u \in Users |-> ""]
  /\ revalidated = {}

RaceCustomerInputs ==
  ReassignInputs \cup [id : 1..MaxCustomers, company_name : {"Acme AS"}]

NextCustomerRace ==
  \/ \E w \in Writers, u \in Callers, input \in RaceCustomerInputs :
       updateCustomerCheck(w, u, input)
  \/ \E w \in Writers : updateCustomerWrite(w)
  \/ \E w \in Writers, u \in Callers, id \in 1..MaxCustomers : deleteCustomerCheck(w, u, id)
  \/ \E w \in Writers : deleteCustomerWrite(w)

SpecCustomerRace == InitCustomerRace /\ [][NextCustomerRace]_vars

\* ---------------------------------------------------------------- specification: cache invalidation
\* Two customers of one user and a contact of the first, under migration 001,
\* which lets deals be created; migration 002 is applied at some point.
\* Contacts, deals and logs are created, updated (deals and logs also onto the
\* other customer) and deleted.
InitCache ==
  /\ \E a \in {1} :
       /\ customers = [c \in 1..(MaxCustomers + 1) |->
                         [company_name |-> "Acme", created_by |-> a, assigned_to |-> a]]
       /\ contacts = [k \in {1} |->
                        [customer_id |-> 1, full_name |-> "Kari", is_primary |-> FALSE,
                         created_by |-> a]]
  /\ deals = EmptyTable
  /\ comms = EmptyTable
  /\ nextId = [customers |-> MaxCustomers + 2, contacts |-> 2, deals |-> 1, comms |-> 1]
  /\ last = [op |-> "init", user |-> NULL, id |-> 0, res |-> Success(0)]
  /\ scn = ScnIdle
  /\ txn = NoTxn
  /\ gen = 1
  /\ profiles = [u \in Users |-> [full_name |-> Email(u), last_login_at |-> NULL]]
  /\ authUsers = [u \in Users |-> ""]
  /\ revalidated = {}

MoveDealInputs ==
  [id : 1..MaxDeals, customer_id : 1..(MaxCustomers + 1), deal_name : DealNames \cup {""},
   stage : {"lead"}]

NextCache ==
  \/ applyMigration002
  \/ \E u \in {NULL, 1, NumUsers}, input \in {i \in CreateContactInputs : ~i.is_primary} :
       createContact(u, input)
  \/ \E u \in {NULL, 1, NumUsers},
        input \in {i \in UpdateContactInputs : "full_name" \in DOMAIN i} :
       updateContact(u, input)
  \/ \E u \in {NULL, 1, NumUsers}, id \in 1..MaxContacts : deleteContact(u, id)
  \/ \E u \in {NULL, 1, NumUsers},
        input \in {i \in CreateDealInputs :
                     i.stage = "lead" /\ "actual_close_date" \notin DOMAIN i} :
       createDeal(u, input)
  \/ \E u \in {NULL, 1, NumUsers}, input \in MoveDealInputs : updateDeal(u, input)
  \/ \E u \in {NULL, 1, NumUsers}, id \in 1..MaxDeals : deleteDeal(u, id)
  \/ \E u \in {NULL, 1, NumUsers},
        input \in {i \in CreateCommunicationInputs :
                     /\ "contact_id" \notin DOMAIN i
                     /\ i.communication_date = DateTimeStrings[1]} :
       createCommunication(u, input)
  \/ \E u \in {NULL, 1, NumUsers},
        input \in {i \in MoveCommunicationInputs : "contact_id" \notin DOMAIN i} :
       updateCommunication(u, input)
  \/ \E u \in {NULL, 1, NumUsers}, id \in 1..MaxComms : deleteCommunication(u, id)

SpecCache == InitCache /\ [][NextCache]_vars

\* ---------------------------------------------------------------- specification: sanitizeError
\* sanitizeError is applied, in any mode, to storage errors of several codes
\* whose messages name constraints, tables and columns, and to the other
\* values the actions hand it.
RawMessages ==
  {"duplicate key value violates unique constraint customers_org_number_key",
   "null value in column company_name of relation customers violates not-null constraint",
   "new row violates row-level security policy for table deals",
   "JSON object requested, multiple (or no rows) returned"}

Errors ==
  {PostgrestErrorWith(c, m) :
     c \in {"23505", "23503", "23502", "23514", "42501", "PGRST116", "08006", "57014"},
     m \in RawMessages}
    \cup Thrown
    \cup {ZodError, JsError("Unauthorized"), JsError("Forbidden"), JsError("Not found"),
          JsError("Invalid contact for this customer")}

applySanitizeError(NODE_ENV, error) ==
  /\ last' = [op |-> "sanitizeError", user |-> NULL, id |-> 0,
              arg |-> [NODE_ENV |-> NODE_ENV, error |-> error],
              res |-> sanitizeErrorIn(NODE_ENV, error), io |-> FALSE]
  /\ UNCHANGED <<customers, contacts, deals, comms, nextId, scn, txn, gen, profiles, authUsers>>
  /\ revalidated' = {}

NextSanitize ==
  \E NODE_ENV \in {"development", "production", "test"}, error \in Errors :
    applySanitizeError(NODE_ENV, error)

SpecSanitize == Init /\ [][NextSanitize]_vars

\* ---------------------------------------------------------------- claims: customers
Entitled(u, row) == u = row.created_by \/ u = row.assigned_to

\* C1: for every customer C and authenticated identity U, updateCustomer and
\* deleteCustomer are applied iff U is C's creator or assignee; any other U gets
\* Forbidden and C is left unchanged.
C1_AppliedIffEntitled ==
  [][/\ \A u \in Users, input \in UpdateCustomerInputs :
          (/\ updateCustomer(u, input)
           /\ input.id \in DOMAIN customers
           /\ updateCustomerSchemaOk(input))
          => LET row == customers[input.id]
                 patched == [customers EXCEPT ![input.id] =
                               Merge(@, Restrict(input, DOMAIN input \ {"id"}))]
             IN /\ Entitled(u, row) <=> (IsSuccess(last'.res) /\ customers' = patched)
                /\ ~Entitled(u, row) =>
                     (CodeOf(last'.res) = "FORBIDDEN" /\ customers' = customers)
     /\ \A u \in Users, id \in 1..MaxCustomers :
          (deleteCustomer(u, id) /\ id \in DOMAIN customers)
          => LET row == customers[id]
             IN /\ Entitled(u, row) <=> (IsSuccess(last'.res) /\ id \notin DOMAIN customers')
                /\ ~Entitled(u, row) =>
                     (CodeOf(last'.res) = "FORBIDDEN" /\ customers' = customers)
    ]_vars

\* C2: on every update or delete request the application-layer ownership check
\* and the storage-layer row policy (USING and WITH CHECK) reach the same
\* allow/deny outcome.
C2_LayersAgree ==
  [][/\ \A u \in Users, input \in UpdateCustomerInputs :
          (/\ updateCustomer(u, input)
           /\ input.id \in DOMAIN customers
           /\ updateCustomerSchemaOk(input))
          => LET row == customers[input.id]
                 new == Merge(row, Restrict(input, DOMAIN input \ {"id"}))
             IN (CodeOf(last'.res) # "FORBIDDEN")
                  <=> (CustomerUpdateUsing(u, row) /\ CustomerUpdateCheck(u, new))
     /\ \A u \in Users, id \in 1..MaxCustomers :
          (deleteCustomer(u, id) /\ id \in DOMAIN customers)
          => ((CodeOf(last'.res) # "FORBIDDEN") <=> CustomerDeleteUsing(u, customers[id]))
     /\ \A u \in Users, id \in 1..MaxCustomers :
          (DeleteCustomerButton(u, id) /\ id \in DOMAIN customers)
          => ((id \notin DOMAIN customers') <=> isOwnerOrAssigned(u, customers[id]))
    ]_vars

\* C3: A creates an unassigned customer; B (distinct) reads it and succeeds; B
\* updates it and gets Forbidden; A assigns it to B and succeeds; B updates it
\* and succeeds.
C3_Scenario ==
  /\ scn.stage = 1 => (IsSuccess(last.res) /\ scn.cust \in DOMAIN customers
                        /\ customers[scn.cust].created_by = scn.a
                        /\ customers[scn.cust].assigned_to = NULL)
  /\ scn.stage = 2 => (last.op = "getCustomer" /\ IsSuccess(last.res))
  /\ scn.stage = 3 => (last.op = "updateCustomer" /\ CodeOf(last.res) = "FORBIDDEN")
  /\ scn.stage = 4 => (last.op = "updateCustomer" /\ IsSuccess(last.res)
                        /\ customers[scn.cust].assigned_to = scn.b)
  /\ scn.stage = 5 => (last.op = "updateCustomer" /\ IsSuccess(last.res)
                        /\ last.user = scn.b)

C3_Witness ==
  /\ scn.stage = 5
  /\ scn.a # scn.b
  /\ IsSuccess(last.res)
  /\ customers[scn.cust].created_by = scn.a
  /\ customers[scn.cust].assigned_to = scn.b

\* ---------------------------------------------------------------- claims: contacts
ParentOf(k) == customers[contacts[k].customer_id]
Primaries(cid) == {k \in ContactsOf(cid) : contacts[k].is_primary}

\* C5: updateContact and deleteContact, called by an authenticated identity
\* whose parent customer is neither created by nor assigned to it, return a
\* Forbidden error, never a success result, and leave the contact unchanged.
C5_ContactForbidden ==
  [][(/\ last'.op \in {"updateContact", "deleteContact"}
      /\ last'.user # NULL
      /\ last'.id \in DOMAIN contacts
      /\ last'.op = "updateContact" => updateContactSchemaOk(last'.arg)
      /\ ~Entitled(last'.user, ParentOf(last'.id)))
     => (/\ CodeOf(last'.res) = "FORBIDDEN"
         /\ ~IsSuccess(last'.res)
         /\ contacts' = contacts)
    ]_vars

\* C8 as stated: SELECT, INSERT, UPDATE and DELETE on a contact by U are all
\* allowed under one predicate on the parent customer: created_by = U or
\* assigned_to = U or assigned_to is null.
C8_SamePredicate ==
  \A u \in Users, k \in DOMAIN contacts :
    LET row == contacts[k]
        allowed == ParentAccessible(u, row.customer_id)
    IN /\ ContactSelectPolicy(u, row) <=> allowed
       /\ ContactInsertCheck(u, [row EXCEPT !.created_by = u]) <=> allowed
       /\ ContactUpdateUsing(u, row) <=> allowed
       /\ ContactDeleteUsing(u, row) <=> allowed

\* C8 amended: reading and inserting a contact are allowed when the parent
\* customer is created by U, assigned to U or unassigned; updating and deleting
\* it only when the parent customer is created by U or assigned to U. Observed
\* on the operations: a read succeeds and an insert stores exactly under the
\* first predicate, an update or delete is applied under the second and
\* otherwise leaves the contacts unchanged.
C8_ReadInsertWiderThanWrite ==
  [][/\ (last'.op = "getContact" /\ last'.user # NULL /\ last'.id \in DOMAIN contacts)
        => (IsSuccess(last'.res)
              <=> (Entitled(last'.user, ParentOf(last'.id))
                     \/ ParentOf(last'.id).assigned_to = NULL))
     /\ (last'.op = "createContact" /\ last'.user # NULL /\ createContactSchemaOk(last'.arg))
        => LET parent == customers[last'.arg.customer_id]
           IN /\ IsSuccess(last'.res)
                   <=> (Entitled(last'.user, parent) \/ parent.assigned_to = NULL)
              /\ IsSuccess(last'.res) <=> (DOMAIN contacts' # DOMAIN contacts)
     /\ (/\ last'.op = "updateContact" /\ last'.user # NULL /\ last'.id \in DOMAIN contacts
         /\ updateContactSchemaOk(last'.arg))
        => IF Entitled(last'.user, ParentOf(last'.id))
           THEN contacts'[last'.id] =
                  Merge(contacts[last'.id], Restrict(last'.arg, DOMAIN last'.arg \ {"id"}))
           ELSE contacts' = contacts
     /\ (last'.op = "deleteContact" /\ last'.user # NULL /\ last'.id \in DOMAIN contacts)
        => IF Entitled(last'.user, ParentOf(last'.id))
           THEN last'.id \notin DOMAIN contacts'
           ELSE contacts' = contacts
    ]_vars

\* A contact of an unassigned customer survives a delete by a user who did not
\* create the customer, although that user can read the contact.
C8_Witness ==
  /\ last.op = "deleteContact"
  /\ last.user # NULL
  /\ last.id \in DOMAIN contacts
  /\ ParentOf(last.id).assigned_to = NULL
  /\ ParentOf(last.id).created_by # last.user
  /\ ContactSelectPolicy(last.user, contacts[last.id])

\* C9: sequentially, after createContact or updateContact by an identity
\* permitted to perform the write sets is_primary on contact X of customer C,
\* the contacts of C hold exactly one primary contact, X; so every reachable
\* state has at most one primary contact per customer.
C9_SinglePrimary ==
  /\ \A cid \in DOMAIN customers : Cardinality(Primaries(cid)) <= 1
  /\ (/\ last.op \in {"createContact", "updateContact"}
      /\ IsSuccess(last.res)
      /\ "is_primary" \in DOMAIN last.arg
      /\ last.arg.is_primary
      /\ IF last.op = "createContact"
         THEN ContactInsertCheck(last.user, contacts[last.id])
         ELSE ContactUpdateUsing(last.user, contacts[last.id]))
     => Primaries(contacts[last.id].customer_id) = {last.id}

\* ---------------------------------------------------------------- claims: deals and communication logs
\* C4: under the policies of migration 002, updateDeal and deleteDeal on deal D
\* by authenticated U are applied iff U = D.created_by or U = D.assigned_to;
\* any other U receives an error whose code is Forbidden and D is unchanged.
C4_DealAppliedIffEntitled ==
  [][(/\ gen = 2
      /\ last'.op \in {"updateDeal", "deleteDeal"}
      /\ last'.user # NULL
      /\ last'.id \in DOMAIN deals
      /\ last'.op = "updateDeal" =>
           (updateDealSchemaOk(last'.arg) /\ last'.arg.customer_id \in DOMAIN customers))
     => LET D == deals[last'.id]
            U == last'.user
        IN IF U = D.created_by \/ U = D.assigned_to
           THEN /\ IsSuccess(last'.res)
                /\ last'.op = "deleteDeal" => last'.id \notin DOMAIN deals'
                /\ last'.op = "updateDeal" => deals'[last'.id].deal_name = last'.arg.deal_name
           ELSE /\ CodeOf(last'.res) = "FORBIDDEN"
                /\ deals' = deals
    ]_vars

\* The inputs of updateCommunication that the schema, the date constraint and
\* the contact check accept.
WellFormedCommunication(u, input) ==
  /\ Len(input.subject) >= 1
  /\ InstantOf(input.communication_date) <= NOW
  /\ input.customer_id \in DOMAIN customers
  /\ HasContact(input) => ContactOfCustomer(u, input.contact_id, input.customer_id)

\* C6: updateCommunication and deleteCommunication on log L by authenticated U
\* are applied iff U = L.logged_by, with no other condition; any other U
\* receives an error whose code is Forbidden and L is unchanged.
C6_CommAppliedIffLogger ==
  [][(/\ last'.op \in {"updateCommunication", "deleteCommunication"}
      /\ last'.user # NULL
      /\ last'.id \in DOMAIN comms
      /\ last'.op = "updateCommunication" => WellFormedCommunication(last'.user, last'.arg))
     => LET L == comms[last'.id]
            U == last'.user
        IN IF U = L.logged_by
           THEN /\ IsSuccess(last'.res)
                /\ last'.op = "deleteCommunication" => last'.id \notin DOMAIN comms'
                /\ last'.op = "updateCommunication" =>
                     comms'[last'.id].communication_date = InstantOf(last'.arg.communication_date)
           ELSE /\ CodeOf(last'.res) = "FORBIDDEN"
                /\ comms' = comms
    ]_vars

\* created_by = U or assigned_to = U or assigned_to is null
Accessible(u, C) == C.created_by = u \/ C.assigned_to = u \/ C.assigned_to = NULL

\* C7: under the policies of migration 002, createDeal and createCommunication
\* by U for parent customer C store a row iff C is accessible to U (created by
\* U, assigned to U or unassigned); otherwise the call fails and nothing is
\* stored.
C7_CreateIffAccessible ==
  [][/\ (/\ gen = 2
         /\ last'.op = "createDeal"
         /\ last'.user # NULL
         /\ createDealSchemaOk(last'.arg)
         /\ last'.arg.customer_id \in DOMAIN customers)
        => IF Accessible(last'.user, customers[last'.arg.customer_id])
           THEN IsSuccess(last'.res) /\ DOMAIN deals' # DOMAIN deals
           ELSE ~IsSuccess(last'.res) /\ deals' = deals
     /\ (/\ gen = 2
         /\ last'.op = "createCommunication"
         /\ last'.user # NULL
         /\ WellFormedCommunication(last'.user, last'.arg))
        => IF Accessible(last'.user, customers[last'.arg.customer_id])
           THEN IsSuccess(last'.res) /\ DOMAIN comms' # DOMAIN comms
           ELSE ~IsSuccess(last'.res) /\ comms' = comms
    ]_vars

\* ---------------------------------------------------------------- claims: concurrent contact updates
\* C10: when two writers concurrently set is_primary on two different contacts
\* of one customer, each write running the clearing update and its own write as
\* one transaction, no interleaving ends with both contacts primary.
C10_RaceSafe ==
  (\A w \in Writers : txn[w].pc = "idle")
    => \A cid \in DOMAIN customers : Cardinality(Primaries(cid)) <= 1

\* ---------------------------------------------------------------- claims: deal stages
TerminalStages == {"won", "lost"}

\* C11: an updateDeal that moves a deal's stage from a non-terminal value
\* (lead, qualified, proposal, negotiation) to won or lost stores
\* actual_close_date equal to the current date in the same write.
C11_CloseDateStamped ==
  [][(/\ last'.op = "updateDeal"
      /\ last'.id \in DOMAIN deals
      /\ deals[last'.id].stage \notin TerminalStages
      /\ deals'[last'.id].stage \in TerminalStages)
     => deals'[last'.id].actual_close_date = CURRENT_DATE
    ]_vars

\* A deal was closed by an update whose input carried another close date, or none.
C11_Witness ==
  /\ last.op = "updateDeal"
  /\ IsSuccess(last.res)
  /\ last.arg.stage \in TerminalStages
  /\ DateOrNull(last.arg) # CURRENT_DATE
  /\ deals[last.id].stage = last.arg.stage
  /\ deals[last.id].actual_close_date = CURRENT_DATE

\* C12: for a deal whose stored stage is already won or lost, an updateDeal
\* that saves the same terminal stage again leaves the stored
\* actual_close_date unchanged, whatever accepted input it is given.
C12_ResaveKeepsCloseDate ==
  [][(/\ last'.op = "updateDeal"
      /\ IsSuccess(last'.res)
      /\ last'.id \in DOMAIN deals
      /\ deals[last'.id].stage \in TerminalStages
      /\ last'.arg.stage = deals[last'.id].stage)
     => deals'[last'.id].actual_close_date = deals[last'.id].actual_close_date
    ]_vars

\* ---------------------------------------------------------------- claims: communication dates
FutureDated(input) == InstantOf(input.communication_date) > NOW

SameFields(row, input) ==
  \A f \in DOMAIN input :
    CASE f = "actual_close_date" -> row[f] = DateOrNull(input)
      [] f = "communication_date" -> row[f] = InstantOf(input[f])
      [] OTHER -> row[f] = input[f]

\* The create calls of an identity entitled to create: a signed-in caller with
\* an input the schema accepts, for a customer assigned to the caller (and, for
\* a log, a contact of that customer and a date that is not in the future).
EntitledCreate(op, u, input) ==
  /\ u # NULL
  /\ CASE op = "createContact" ->
            createContactSchemaOk(input) /\ CustomerAssignedTo(u, input.customer_id)
       [] op = "createDeal" ->
            createDealSchemaOk(input) /\ CustomerAssignedTo(u, input.customer_id)
       [] op = "createCommunication" ->
            WellFormedCommunication(u, input) /\ CustomerAssignedTo(u, input.customer_id)
       [] OTHER -> FALSE

GetOf(op) ==
  CASE op = "createCustomer" -> "getCustomer"
    [] op = "createContact" -> "getContact"
    [] op = "createDeal" -> "getDeal"
    [] op = "createCommunication" -> "getCommunication"
    [] OTHER -> ""

TableOf(op) ==
  CASE op = "createCustomer" -> customers
    [] op = "createContact" -> contacts
    [] op = "createDeal" -> deals
    [] op = "createCommunication" -> comms
    [] OTHER -> EmptyTable

\* C14: for each entity, a create call by an identity entitled to create it
\* succeeds, and a following getById of the returned id by the same identity
\* succeeds and returns the stored row, equal to the input on every field the
\* caller supplied. (The input of createCustomer is not kept in the history:
\* for customers the read-back is required to succeed.)
C14_RoundTrip ==
  [][/\ EntitledCreate(last'.op, last'.user, last'.arg) => IsSuccess(last'.res)
     /\ (/\ GetOf(last.op) # ""
         /\ IsSuccess(last.res)
         /\ last'.op = GetOf(last.op)
         /\ last'.user = last.user
         /\ last'.id = last.id)
        => /\ IsSuccess(last'.res)
           /\ last.id \in DOMAIN TableOf(last.op)
           /\ last.op # "createCustomer" => SameFields(TableOf(last.op)[last.id], last.arg)
    ]_vars

\* ---------------------------------------------------------------- claims: cascade
\* C15: after deleteCustomer on customer C succeeds, every contact, deal and
\* communication log of C is gone, and a following getContact, getDeal or
\* getCommunication on any of them by a signed-in caller returns an error
\* whose kind is NotFound.
C15_CascadeThenNotFound ==
  [][/\ (last'.op = "deleteCustomer" /\ IsSuccess(last'.res))
        => /\ last'.id \notin DOMAIN customers'
           /\ \A k \in DOMAIN contacts' : contacts'[k].customer_id # last'.id
           /\ \A d \in DOMAIN deals' : deals'[d].customer_id # last'.id
           /\ \A c \in DOMAIN comms' : comms'[c].customer_id # last'.id
     /\ (/\ customers = EmptyTable
         /\ last'.op \in {"getContact", "getDeal", "getCommunication"}
         /\ last'.user # NULL)
        => KindOf(CodeOf(last'.res)) = "NotFound"
    ]_vars

\* ---------------------------------------------------------------- claims: the repository contract
\* C16: every repository function, called when no current identity is
\* available, returns an Unauthorized error, whatever its input (valid or
\* not), without having issued any statement against the store and leaving
\* the store as it was.
C16_UnauthorizedFirst ==
  [][(/\ "thrown" \notin DOMAIN last'
      /\ last'.op \in RepositoryFunctions
      /\ last'.user = NULL)
     => (/\ CodeOf(last'.res) = "UNAUTHORIZED"
         /\ ~last'.io
         /\ <<customers, contacts, deals, comms, nextId>>'
              = <<customers, contacts, deals, comms, nextId>>)
    ]_vars

\* An anonymous createDeal with an input the schema refuses, on a store that
\* holds a customer, was answered Unauthorized.
C16_Witness ==
  /\ last.op = "createDeal"
  /\ "thrown" \notin DOMAIN last
  /\ last.user = NULL
  /\ ~createDealSchemaOk(last.arg)
  /\ customers # EmptyTable
  /\ CodeOf(last.res) = "UNAUTHORIZED"
  /\ ~last.io

\* C17 as stated: every repository function returns {success: true, data} or
\* {success: false, error, code}.
C17_TaggedUnion ==
  last.op \in RepositoryFunctions
    => /\ "success" \in DOMAIN last.res
       /\ last.res.success = TRUE => "data" \in DOMAIN last.res
       /\ last.res.success = FALSE => {"error", "code"} \subseteq DOMAIN last.res

\* C17 amended: every repository function returns either {success: true, data}
\* or an error result {error, code, details?} that carries no success field,
\* its code one of the ErrorCode values; a failure thrown inside the function
\* (by validation, the identity provider or a storage call) ends in the same
\* kind of error result, never in a raised exception.
C17_ResultShape ==
  last.op \in RepositoryFunctions
    => \/ /\ DOMAIN last.res = {"success", "data"}
          /\ last.res.success = TRUE
          /\ "thrown" \notin DOMAIN last
       \/ /\ "success" \notin DOMAIN last.res
          /\ {"error", "code"} \subseteq DOMAIN last.res
          /\ DOMAIN last.res \subseteq {"error", "code", "details"}
          /\ last.res.code \in ErrorCode
          /\ "thrown" \in DOMAIN last => last.res = sanitizeError(last.thrown)

\* A value that is not an Error was thrown inside a function and came back as
\* an error result.
C17_Witness ==
  /\ last.op \in RepositoryFunctions
  /\ "thrown" \in DOMAIN last
  /\ last.thrown.kind = "other"
  /\ "success" \notin DOMAIN last.res
  /\ last.res.code = "UNKNOWN_ERROR"

\* ---------------------------------------------------------------- claims: contact of another customer
\* C18: createCommunication and updateCommunication called (by a caller who
\* passes the checks that come first) with a contact_id that does not belong to
\* the given customer_id fail with an error of kind ValidationError and write
\* nothing.
C18_InvalidContactValidationError ==
  [][(/\ last'.op \in {"createCommunication", "updateCommunication"}
      /\ last'.user # NULL
      /\ Len(last'.arg.subject) >= 1
      /\ CustomerAssignedTo(last'.user, last'.arg.customer_id)
      /\ last'.op = "updateCommunication" => CommLoggedBy(last'.user, last'.arg.id)
      /\ HasContact(last'.arg)
      /\ ~(/\ last'.arg.contact_id \in DOMAIN contacts
           /\ contacts[last'.arg.contact_id].customer_id = last'.arg.customer_id))
     => (/\ ~IsSuccess(last'.res)
         /\ KindOf(CodeOf(last'.res)) = "ValidationError"
         /\ comms' = comms)
    ]_vars

\* ---------------------------------------------------------------- claims: sanitizeError
\* C19: outside development mode, two storage errors with the same error code
\* but different messages (naming other constraints, tables or columns) yield
\* identical results, which carry the mapped code and a fixed generic message,
\* nothing of the raw message, and no details.
C19_NoRawText ==
  [][(/\ last.op = "sanitizeError"
      /\ last'.op = "sanitizeError"
      /\ last.arg.NODE_ENV # "development"
      /\ last'.arg.NODE_ENV # "development"
      /\ last.arg.error.hasCode
      /\ last'.arg.error.hasCode
      /\ last.arg.error.code = last'.arg.error.code)
     => (/\ last'.res = last.res
         /\ last'.res.details = undefined
         /\ last'.res.error \notin RawMessages
         /\ last'.res.code \in ErrorCode)
    ]_vars

\* A storage error whose message names a table and a column was sanitized in
\* production mode.
C19_Witness ==
  /\ last.op = "sanitizeError"
  /\ last.arg.NODE_ENV = "production"
  /\ last.arg.error.hasCode
  /\ Includes(last.arg.error.message, "column company_name of relation customers")
  /\ last.res.code = "INVALID_INPUT"
  /\ last.res.details = undefined

\* ---------------------------------------------------------------- claims: search
\* C20: globalSearch by an authenticated identity with a term shorter than 2
\* characters after trimming (here "", " ", "a" and " a ") returns a successful
\* empty list without issuing any storage query; a longer term is searched for
\* in the store.
C20_ShortTermNoQuery ==
  [][(/\ last'.op = "globalSearch"
      /\ "thrown" \notin DOMAIN last'
      /\ last'.user # NULL)
     => IF last'.arg \in {"", " ", "a", " a "}
        THEN /\ last'.res = Success({})
             /\ ~last'.io
             /\ <<customers, contacts, deals, comms, nextId>>'
                  = <<customers, contacts, deals, comms, nextId>>
        ELSE last'.io /\ IsSuccess(last'.res)
    ]_vars

\* The term " a ", which the name of a stored customer of the caller contains,
\* was answered with the empty list and no query.
C20_Witness ==
  /\ last.op = "globalSearch"
  /\ "thrown" \notin DOMAIN last
  /\ last.user # NULL
  /\ last.arg = " a "
  /\ OwnCustomers(last.user) # {}
  /\ last.res = Success({})
  /\ ~last.io

\* ---------------------------------------------------------------- C21
\* C21: for a search term of at least 2 characters after trimming, every
\* customer that is accessible to the caller (created by them, assigned to
\* them or unassigned) and whose name matches the term is among the hits of
\* globalSearch, tagged 'customer'.
C21_AccessibleCustomersFound ==
  (/\ last.op = "globalSearch"
   /\ last.user # NULL
   /\ IsSuccess(last.res)
   /\ Len(trim(last.arg)) >= 2)
  => \A c \in DOMAIN customers :
       (/\ Accessible(last.user, customers[c])
        /\ ilike(customers[c].company_name, trim(last.arg)))
       => <<"customer", c>> \in last.res.data

\* ---------------------------------------------------------------- C22
\* C22: profile creation for an identity whose profile already exists inserts
\* nothing, returns success with the existing row and leaves the identity's
\* profile as it was: for ensureProfile with any options, run without
\* interruption and with the fetch working, and for the ensureProfile of the
\* signup flow once the trigger has created the profile.
C22_ProfileCreationIdempotent ==
  [][/\ (/\ last'.op = "ensureProfile"
         /\ ~last'.fault
         /\ last'.user \in DOMAIN profiles)
        => /\ profiles' = profiles
           /\ last'.res.success
           /\ last'.res.profile = profiles[last'.user]
     /\ (/\ last'.op = "signUpWithProfile"
         /\ last'.user \notin DOMAIN authUsers
         /\ last'.registered
         /\ last'.triggered
         /\ ~last'.fault)
        => /\ last'.ensured.success
           /\ last'.ensured.profile = profiles'[last'.user]
    ]_vars

\* ---------------------------------------------------------------- C23
\* C23: a profile failure blocks neither signup nor authentication:
\* signUpWithProfile returns success with the user whenever the call
\* registered the identity, and checkAuthAndEnsureProfile returns
\* authenticated = true with the user whenever the session has a user, also
\* when the profile lookup or creation failed or the last-login update failed;
\* its result carries no error.
C23_ProfileFailureNeverBlocks ==
  [][/\ (/\ last'.op = "signUpWithProfile"
         /\ last'.user \notin DOMAIN authUsers
         /\ last'.user \in DOMAIN authUsers')
        => last'.res = [success |-> TRUE, user |-> last'.user]
     /\ (last'.op = "checkAuthAndEnsureProfile" /\ last'.user # NULL)
        => /\ last'.res.authenticated
           /\ last'.res.user = last'.user
           /\ "error" \notin DOMAIN last'.res
    ]_vars

\* An identity that signed up without getting a profile is authenticated
\* although the profile lookup and the last-login update both failed.
C23_Witness ==
  /\ last.op = "checkAuthAndEnsureProfile"
  /\ last.user # NULL
  /\ last.user \in DOMAIN authUsers
  /\ last.user \notin DOMAIN profiles
  /\ ~last.ensured.success
  /\ last.updateFault
  /\ last.res.authenticated

\* ---------------------------------------------------------------- C30
\* C30: when two ensureProfile calls for the same identity without a profile
\* interleave, both reading before either inserts, each call's INSERT returns
\* success with the identity's one profile row.
C30_ConcurrentEnsureBothSucceed ==
  [][\A w \in Writers :
       (/\ txn[w].pc = "creating"
        /\ txn'[w].pc = "idle"
        /\ ~txn[w].input.forceCreate
        /\ \E o \in Writers \ {w} :
             \/ txn[o].pc = "creating" /\ txn[o].user = txn[w].user
             \/ /\ txn[o].pc = "idle"
                /\ last.op = "ensureProfile"
                /\ last.writer = o
                /\ last.user = txn[w].user
                /\ last.res.success)
       => /\ last'.res.success
          /\ txn[w].user \in DOMAIN profiles'
          /\ last'.res.profile = profiles'[txn[w].user]
    ]_vars

\* ---------------------------------------------------------------- C24
\* C24: created_by of a customer is immutable once set: a customer is stored
\* with created_by equal to the identity that created it, and no later
\* operation by any identity changes the created_by of a customer that stays
\* in the store.
C24_CreatedByImmutable ==
  [][/\ \A c \in DOMAIN customers \cap DOMAIN customers' :
          customers'[c].created_by = customers[c].created_by
     /\ \A c \in DOMAIN customers' \ DOMAIN customers :
          /\ last'.op = "createCustomer"
          /\ customers'[c].created_by = last'.user
    ]_vars

\* An assignee who is not the creator has updated the customer.
C24_Witness ==
  /\ last.op = "updateCustomer"
  /\ IsSuccess(last.res)
  /\ last.id \in DOMAIN customers
  /\ customers[last.id].assigned_to = last.user
  /\ customers[last.id].created_by # last.user

\* ---------------------------------------------------------------- C25
\* C25: every row stored by a create function captures the creating identity:
\* a new customer, contact or deal has created_by equal to the caller and a
\* new communication log has logged_by equal to the caller.
C25_CreatorCaptured ==
  [][/\ \A c \in DOMAIN customers' \ DOMAIN customers : customers'[c].created_by = last'.user
     /\ \A k \in DOMAIN contacts' \ DOMAIN contacts : contacts'[k].created_by = last'.user
     /\ \A d \in DOMAIN deals' \ DOMAIN deals : deals'[d].created_by = last'.user
     /\ \A c \in DOMAIN comms' \ DOMAIN comms : comms'[c].logged_by = last'.user
    ]_vars

\* ---------------------------------------------------------------- C26
\* C26: in every reachable state every communication log with a non-null
\* contact_id references an existing contact whose customer_id equals the
\* log's customer_id.
C26_ContactOfSameCustomer ==
  \A c \in DOMAIN comms :
    comms[c].contact_id # NULL =>
      /\ comms[c].contact_id \in DOMAIN contacts
      /\ contacts[comms[c].contact_id].customer_id = comms[c].customer_id

\* ---------------------------------------------------------------- C27
\* A hit of the search is a row the read policy of its table lets u select.
Readable(u, hit) ==
  CASE hit[1] = "customer" ->
         hit[2] \in DOMAIN customers /\ CustomerSelectPolicy(u, customers[hit[2]])
    [] hit[1] = "contact" ->
         hit[2] \in DOMAIN contacts /\ ContactSelectPolicy(u, contacts[hit[2]])
    [] hit[1] = "communication" ->
         hit[2] \in DOMAIN comms /\ CommSelectPolicy(u, comms[hit[2]])
    [] hit[1] = "deal" ->
         hit[2] \in DOMAIN deals /\ DealSelectPolicy(u, deals[hit[2]])

\* C27: every hit globalSearch returns to an identity is a customer, contact,
\* communication log or deal that the storage read policy lets that identity
\* select.
C27_HitsReadable ==
  (last.op = "globalSearch" /\ IsSuccess(last.res))
  => \A hit \in last.res.data : Readable(last.user, hit)

\* A search whose term matches a contact that the caller entered and can no
\* longer read: the contact is withheld.
C27_Witness ==
  /\ last.op = "globalSearch"
  /\ IsSuccess(last.res)
  /\ last.io
  /\ \E k \in DOMAIN contacts :
       /\ contacts[k].created_by = last.user
       /\ ilike(contacts[k].full_name, trim(last.arg))
       /\ ~ContactSelectPolicy(last.user, contacts[k])
       /\ <<"contact", k>> \notin last.res.data

\* ---------------------------------------------------------------- C28
\* C28: a mutation that returns an error result invalidates nothing; every
\* successful contact, deal or communication mutation invalidates the detail
\* page of the row's parent customer; a successful updateDeal or
\* updateCommunication invalidates the detail page of the customer the row
\* was on and of the customer the update names.
C28_InvalidationLast ==
  [][/\ (/\ last'.op \in {"createContact", "updateContact",
                          "deleteContact", "createDeal", "updateDeal", "deleteDeal",
                          "createCommunication", "updateCommunication",
                          "deleteCommunication"}
         /\ ~IsSuccess(last'.res))
        => revalidated' = {}
     /\ (/\ last'.op \in {"createContact", "createDeal", "createCommunication"}
         /\ IsSuccess(last'.res))
        => CustomerPath(last'.arg.customer_id) \in revalidated'
     /\ (last'.op \in {"updateContact", "deleteContact"} /\ IsSuccess(last'.res))
        => CustomerPath(contacts[last'.id].customer_id) \in revalidated'
     /\ (last'.op \in {"updateDeal", "deleteDeal"} /\ IsSuccess(last'.res))
        => CustomerPath(deals[last'.id].customer_id) \in revalidated'
     /\ (last'.op \in {"updateCommunication", "deleteCommunication"} /\ IsSuccess(last'.res))
        => CustomerPath(comms[last'.id].customer_id) \in revalidated'
     /\ (last'.op \in {"updateDeal", "updateCommunication"} /\ IsSuccess(last'.res))
        => CustomerPath(last'.arg.customer_id) \in revalidated'
    ]_vars

\* A deal has been moved from the first customer to the second: both detail
\* pages were invalidated.
C28_Witness ==
  /\ last.op = "updateDeal"
  /\ IsSuccess(last.res)
  /\ deals[last.id].customer_id = MaxCustomers + 1
  /\ CustomerPath(1) \in revalidated
  /\ CustomerPath(MaxCustomers + 1) \in revalidated

\* ---------------------------------------------------------------- C29
\* C29: when the write of an updateCustomer or deleteCustomer call reaches a
\* customer whose creator and assignee are both somebody else by then (another
\* call took the caller's assignment away after the caller's ownership check),
\* the write is not applied and the call does not return success.
C29_StaleWriteRefused ==
  [][\A w \in Writers :
       (/\ txn[w].pc \in {"checked", "checkedDelete"}
        /\ txn'[w].pc = "idle"
        /\ txn[w].input.id \in DOMAIN customers
        /\ ~isOwnerOrAssigned(txn[w].user, customers[txn[w].input.id]))
       => /\ customers' = customers
          /\ ~IsSuccess(last'.res)
    ]_vars

====
